---- MODULE Spec2Model ----
(***************************************************************************)
(* Model of the gesture recognition core of cv-fighter.                    *)
(*                                                                         *)
(* Part 1: GestureStateMachine (src/gesture_recognizer.py), the            *)
(* confirmation / cooldown state machine.                                  *)
(*                                                                         *)
(* Units.  Times are integers counting ticks of 0.05 s, so the program's   *)
(* 0.1 s is 2 ticks and 0.2 s is 4 ticks; the times of the unit tests      *)
(* (0.0, 0.05, 0.15, 0.20, 0.25, 0.50) are the ticks 0, 1, 3, 4, 5, 10.    *)
(* Confidences are integers counting hundredths, so the program's 0.7 is   *)
(* 70.  The state machine only subtracts two times and compares the        *)
(* difference with a duration, and compares a confidence with 0.7, so the  *)
(* integer grid keeps every ordering the code can observe, the boundaries  *)
(* (difference equal to the duration, confidence equal to 0.7) included.   *)
(***************************************************************************)
EXTENDS Integers, Sequences, FiniteSets, TLC

\* ------------------------------------------------------------------ bounds

\* Largest current_time (in ticks) the model passes to update.
MaxTime == 12

\* The count of update calls is kept exactly up to CallCountCap - 1; the value
\* CallCountCap stands for "CallCountCap calls or more".
CallCountCap == 5

\* ------------------------------------------------------- program constants

\* config.TIMING["confirmation_duration"] = 0.1 s = 2 ticks
confirmation_threshold == 2

\* config.TIMING["cooldown_duration"] = 0.2 s = 4 ticks
cooldown_duration == 4

\* The literal 0.7 in `confidence > 0.7`
confidence_gate == 70

\* The default of last_trigger_time.get(current_gesture, 0)
get_default == 0

\* Python's None
None == "None"

\* GestureState enum values
IDLE == "idle"
GESTURE_STARTING == "starting"
GESTURE_CONFIRMED == "confirmed"
COOLDOWN == "cooldown"

GestureState == {IDLE, GESTURE_STARTING, GESTURE_CONFIRMED, COOLDOWN}

\* Gesture names the state machine is fed (keys of GESTURE_KEY_MAPPING).  The
\* state machine only compares names for equality, so two names (and None)
\* give the patterns same candidate / different candidate / no candidate.
Gestures == {"jump", "block"}

\* Candidates: a gesture name or None
Candidates == Gestures \cup {None}

\* Confidence values fed to update: 0.0 (below the gate; the recognizer's
\* value with None), 0.7 (the gate itself), 0.8 (above the gate).
Confidences == {0, 70, 80}

\* --------------------------------------------------------------- the state

VARIABLES
    state,               \* self.state
    current_gesture,     \* self.current_gesture
    gesture_start_time,  \* self.gesture_start_time
    last_trigger_time,   \* self.last_trigger_time (dict: gesture -> time)
    now,                 \* current_time of the latest update call
    arg_gesture,         \* detected_gesture of the latest update call
    arg_confidence,      \* confidence of the latest update call
    ncalls,              \* how many times update has been called (capped)
    ret,                 \* what the latest update call returned: <<>> is None
    prev,                \* the fields as they were when the latest call began
    streak_start,        \* current_time of the first call of the unbroken
                         \* run of calls, ending with the latest call, that
                         \* all carried the candidate arg_gesture
    events               \* every event returned so far, oldest first

\* The recognizer: its baseline, its punch detector's fields, and what the
\* calls showed.
VARIABLES
    rec_calibration,     \* GestureRecognizer.calibration (a CalibrationData)
    prev_landmarks,      \* PunchDetector.prev_landmarks: <<>> is None
    velocity_history,    \* PunchDetector.velocity_history
    last_frame,          \* the frame passed to the call before the latest one
    obs,                 \* what the latest detect / recognize call did
    other                \* a second recognizer, fed the same frames

\* The calibrator.
VARIABLES
    time_time,           \* the latest reading of time.time()
    start_time,          \* CalibrationSystem.start_time: <<>> is None
    calibration_data,    \* CalibrationSystem.calibration_data
    cal_obs              \* what the update calls of the calibrator returned

\* The application's threads and what they share.
VARIABLES
    shared_state,        \* SharedState: the two queues and is_running
    capture,             \* WebcamCapture and its capture thread
    app,                 \* CVFighterApp and its main thread
    input_simulator,     \* InputSimulator and its input thread
    keyboard             \* the keys the pynput Controller holds down, and
                         \* the press and release calls that took effect

fsm_vars == <<state, current_gesture, gesture_start_time, last_trigger_time,
              now, arg_gesture, arg_confidence, ncalls, ret, prev,
              streak_start, events>>

rec_vars == <<rec_calibration, prev_landmarks, velocity_history, last_frame, obs,
              other>>

cal_vars == <<time_time, start_time, calibration_data, cal_obs>>

thread_vars == <<shared_state, capture, app, input_simulator, keyboard>>

vars == <<fsm_vars, rec_vars, cal_vars, thread_vars>>

\* The recognizer, and the calibrator and the threads, while a run does not
\* use them.
RecognizerUnused ==
    /\ rec_calibration = <<>>
    /\ prev_landmarks = <<>>
    /\ velocity_history = <<>>
    /\ last_frame = <<>>
    /\ obs = <<>>
    /\ other = <<>>

CalibratorUnused ==
    /\ time_time = 0
    /\ start_time = <<>>
    /\ calibration_data = <<>>
    /\ cal_obs = <<>>

ThreadsUnused ==
    /\ shared_state = <<>>
    /\ capture = <<>>
    /\ app = <<>>
    /\ input_simulator = <<>>
    /\ keyboard = <<>>

\* The object's fields as one record.
Self == [state |-> state,
         current_gesture |-> current_gesture,
         gesture_start_time |-> gesture_start_time,
         last_trigger_time |-> last_trigger_time]

\* ------------------------------------------------------------ pure helpers

\* dict.get(key, default)
DictGet(d, key, default) == IF key \in DOMAIN d THEN d[key] ELSE default

\* d[key] = value
DictSet(d, key, value) ==
    [k \in (DOMAIN d) \cup {key} |-> IF k = key THEN value ELSE d[k]]

\* Variant of create_gesture_event that stamps the event with the time at
\* which the gesture started instead of the time of the confirming call.
create_gesture_event_start_time(self, confidence, timestamp) ==
    [gesture_type |-> self.current_gesture,
     confidence |-> confidence,
     timestamp |-> self.gesture_start_time,
     state |-> self.state]

\* GestureStateMachine._create_gesture_event
create_gesture_event(self, confidence, timestamp) ==
    [gesture_type |-> self.current_gesture,
     confidence |-> confidence,
     timestamp |-> timestamp,
     state |-> self.state]

\* Each branch of update yields the new fields and the returned value
\* (<<>> for None, <<e>> for the event e).

\* Variant of update_idle that forgets to record gesture_start_time.
update_idle_no_start_time(self, detected_gesture, confidence, current_time) ==
    IF detected_gesture # None /\ confidence > confidence_gate
    THEN [self |-> [self EXCEPT !.state = GESTURE_STARTING,
                                !.current_gesture = detected_gesture],
          result |-> <<>>]
    ELSE [self |-> self, result |-> <<>>]

\* Variant of update_idle that gates with >= 0.7 instead of > 0.7.
update_idle_ge(self, detected_gesture, confidence, current_time) ==
    IF detected_gesture # None /\ confidence >= confidence_gate
    THEN [self |-> [self EXCEPT !.state = GESTURE_STARTING,
                                !.current_gesture = detected_gesture,
                                !.gesture_start_time = current_time],
          result |-> <<>>]
    ELSE [self |-> self, result |-> <<>>]

\* if self.state == GestureState.IDLE
update_idle(self, detected_gesture, confidence, current_time) ==
    IF detected_gesture # None /\ confidence > confidence_gate
    THEN [self |-> [self EXCEPT !.state = GESTURE_STARTING,
                                !.current_gesture = detected_gesture,
                                !.gesture_start_time = current_time],
          result |-> <<>>]
    ELSE [self |-> self, result |-> <<>>]

\* Variant of update_starting that does not compare the candidate with
\* current_gesture before confirming.
update_starting_any_candidate(self, detected_gesture, confidence, current_time) ==
    IF current_time - self.gesture_start_time > confirmation_threshold
    THEN LET confirmed == [self EXCEPT !.state = GESTURE_CONFIRMED]
         IN [self |-> confirmed,
             result |-> <<create_gesture_event(confirmed, confidence,
                                               current_time)>>]
    ELSE IF detected_gesture = self.current_gesture
         THEN [self |-> self, result |-> <<>>]
         ELSE [self |-> [self EXCEPT !.state = IDLE,
                                     !.current_gesture = None],
               result |-> <<>>]

\* Variant of update_starting that confirms with >= instead of >.
update_starting_ge(self, detected_gesture, confidence, current_time) ==
    IF detected_gesture = self.current_gesture
    THEN IF current_time - self.gesture_start_time >= confirmation_threshold
         THEN LET confirmed == [self EXCEPT !.state = GESTURE_CONFIRMED]
              IN [self |-> confirmed,
                  result |-> <<create_gesture_event(confirmed, confidence,
                                                    current_time)>>]
         ELSE [self |-> self, result |-> <<>>]
    ELSE [self |-> [self EXCEPT !.state = IDLE, !.current_gesture = None],
          result |-> <<>>]

\* Variant of update_starting that, when the candidate changes, adopts the
\* new candidate instead of going back to IDLE.
update_starting_adopts(self, detected_gesture, confidence, current_time) ==
    IF detected_gesture = self.current_gesture
    THEN IF current_time - self.gesture_start_time > confirmation_threshold
         THEN LET confirmed == [self EXCEPT !.state = GESTURE_CONFIRMED]
              IN [self |-> confirmed,
                  result |-> <<create_gesture_event(confirmed, confidence,
                                                    current_time)>>]
         ELSE [self |-> self, result |-> <<>>]
    ELSE IF detected_gesture # None /\ confidence > confidence_gate
         THEN [self |-> [self EXCEPT !.current_gesture = detected_gesture,
                                     !.gesture_start_time = current_time],
               result |-> <<>>]
         ELSE [self |-> [self EXCEPT !.state = IDLE,
                                     !.current_gesture = None],
               result |-> <<>>]

\* Variant of update_starting that enters COOLDOWN in the confirming call
\* itself (no dwell in GESTURE_CONFIRMED).
update_starting_to_cooldown(self, detected_gesture, confidence, current_time) ==
    IF detected_gesture = self.current_gesture
    THEN IF current_time - self.gesture_start_time > confirmation_threshold
         THEN [self |-> [self EXCEPT !.state = COOLDOWN,
                                     !.last_trigger_time =
                                         DictSet(self.last_trigger_time,
                                                 self.current_gesture,
                                                 current_time)],
               result |-> <<create_gesture_event(
                               [self EXCEPT !.state = GESTURE_CONFIRMED],
                               confidence, current_time)>>]
         ELSE [self |-> self, result |-> <<>>]
    ELSE [self |-> [self EXCEPT !.state = IDLE, !.current_gesture = None],
          result |-> <<>>]

\* Variant of update_starting that, when the candidate is lost, goes back to
\* IDLE without clearing current_gesture.
update_starting_keeps_gesture(self, detected_gesture, confidence, current_time) ==
    IF detected_gesture = self.current_gesture
    THEN IF current_time - self.gesture_start_time > confirmation_threshold
         THEN LET confirmed == [self EXCEPT !.state = GESTURE_CONFIRMED]
              IN [self |-> confirmed,
                  result |-> <<create_gesture_event(confirmed, confidence,
                                                    current_time)>>]
         ELSE [self |-> self, result |-> <<>>]
    ELSE [self |-> [self EXCEPT !.state = IDLE], result |-> <<>>]

\* Variant of update_starting that restarts gesture_start_time on every call
\* that comes too early to confirm.
update_starting_restarts_timer(self, detected_gesture, confidence, current_time) ==
    IF detected_gesture = self.current_gesture
    THEN IF current_time - self.gesture_start_time > confirmation_threshold
         THEN LET confirmed == [self EXCEPT !.state = GESTURE_CONFIRMED]
              IN [self |-> confirmed,
                  result |-> <<create_gesture_event(confirmed, confidence,
                                                    current_time)>>]
         ELSE [self |-> [self EXCEPT !.gesture_start_time = current_time],
               result |-> <<>>]
    ELSE [self |-> [self EXCEPT !.state = IDLE, !.current_gesture = None],
          result |-> <<>>]

\* Variant of update_starting that confirms only with a confidence above the
\* gate.
update_starting_gated(self, detected_gesture, confidence, current_time) ==
    IF detected_gesture = self.current_gesture
    THEN IF /\ current_time - self.gesture_start_time > confirmation_threshold
            /\ confidence > confidence_gate
         THEN LET confirmed == [self EXCEPT !.state = GESTURE_CONFIRMED]
              IN [self |-> confirmed,
                  result |-> <<create_gesture_event(confirmed, confidence,
                                                    current_time)>>]
         ELSE [self |-> self, result |-> <<>>]
    ELSE [self |-> [self EXCEPT !.state = IDLE, !.current_gesture = None],
          result |-> <<>>]

\* elif self.state == GestureState.GESTURE_STARTING
update_starting(self, detected_gesture, confidence, current_time) ==
    IF detected_gesture = self.current_gesture
    THEN IF current_time - self.gesture_start_time > confirmation_threshold
         THEN LET confirmed == [self EXCEPT !.state = GESTURE_CONFIRMED]
              IN [self |-> confirmed,
                  result |-> <<create_gesture_event(confirmed, confidence,
                                                    current_time)>>]
         ELSE [self |-> self, result |-> <<>>]
    ELSE [self |-> [self EXCEPT !.state = IDLE, !.current_gesture = None],
          result |-> <<>>]

\* Variant of update_confirmed that also returns an event.
update_confirmed_emits(self, detected_gesture, confidence, current_time) ==
    [self |-> [self EXCEPT !.state = COOLDOWN,
                           !.last_trigger_time =
                               DictSet(self.last_trigger_time,
                                       self.current_gesture, current_time)],
     result |-> <<create_gesture_event(self, confidence, current_time)>>]

\* Variant of update_confirmed that does not record last_trigger_time.
update_confirmed_no_record(self, detected_gesture, confidence, current_time) ==
    [self |-> [self EXCEPT !.state = COOLDOWN], result |-> <<>>]

\* Variant of update_confirmed that records gesture_start_time instead of
\* current_time.
update_confirmed_start_time(self, detected_gesture, confidence, current_time) ==
    [self |-> [self EXCEPT !.state = COOLDOWN,
                           !.last_trigger_time =
                               DictSet(self.last_trigger_time,
                                       self.current_gesture,
                                       self.gesture_start_time)],
     result |-> <<>>]

\* elif self.state == GestureState.GESTURE_CONFIRMED
update_confirmed(self, detected_gesture, confidence, current_time) ==
    [self |-> [self EXCEPT !.state = COOLDOWN,
                           !.last_trigger_time =
                               DictSet(self.last_trigger_time,
                                       self.current_gesture, current_time)],
     result |-> <<>>]

\* Variant of update_cooldown with the comparison flipped (< for >).
update_cooldown_flipped(self, detected_gesture, confidence, current_time) ==
    IF current_time
         - DictGet(self.last_trigger_time, self.current_gesture, get_default)
         < cooldown_duration
    THEN [self |-> [self EXCEPT !.state = IDLE, !.current_gesture = None],
          result |-> <<>>]
    ELSE [self |-> self, result |-> <<>>]

\* Variant of update_cooldown that leaves COOLDOWN with >= instead of >.
update_cooldown_ge(self, detected_gesture, confidence, current_time) ==
    IF current_time
         - DictGet(self.last_trigger_time, self.current_gesture, get_default)
         >= cooldown_duration
    THEN [self |-> [self EXCEPT !.state = IDLE, !.current_gesture = None],
          result |-> <<>>]
    ELSE [self |-> self, result |-> <<>>]

\* Variant of update_cooldown in which the call that leaves COOLDOWN treats
\* its candidate as the IDLE branch would.
update_cooldown_restarts(self, detected_gesture, confidence, current_time) ==
    IF current_time
         - DictGet(self.last_trigger_time, self.current_gesture, get_default)
         > cooldown_duration
    THEN IF detected_gesture # None /\ confidence > confidence_gate
         THEN [self |-> [self EXCEPT !.state = GESTURE_STARTING,
                                     !.current_gesture = detected_gesture,
                                     !.gesture_start_time = current_time],
               result |-> <<>>]
         ELSE [self |-> [self EXCEPT !.state = IDLE, !.current_gesture = None],
               result |-> <<>>]
    ELSE [self |-> self, result |-> <<>>]

\* elif self.state == GestureState.COOLDOWN
update_cooldown(self, detected_gesture, confidence, current_time) ==
    IF current_time
         - DictGet(self.last_trigger_time, self.current_gesture, get_default)
         > cooldown_duration
    THEN [self |-> [self EXCEPT !.state = IDLE, !.current_gesture = None],
          result |-> <<>>]
    ELSE [self |-> self, result |-> <<>>]

\* GestureStateMachine.update as a function of the fields and the arguments
update_fn(self, detected_gesture, confidence, current_time) ==
    CASE self.state = IDLE ->
            update_idle(self, detected_gesture, confidence, current_time)
      [] self.state = GESTURE_STARTING ->
            update_starting(self, detected_gesture, confidence, current_time)
      [] self.state = GESTURE_CONFIRMED ->
            update_confirmed(self, detected_gesture, confidence, current_time)
      [] self.state = COOLDOWN ->
            update_cooldown(self, detected_gesture, confidence, current_time)

\* ------------------------------------------------------------------ actions

\* GestureStateMachine.__init__, before any call of update
FreshStateMachine ==
    /\ state = IDLE
    /\ current_gesture = None
    /\ gesture_start_time = 0
    /\ last_trigger_time = <<>>
    /\ now = 0
    /\ arg_gesture = None
    /\ arg_confidence = 0
    /\ ncalls = 0
    /\ ret = <<>>
    /\ prev = [state |-> IDLE, current_gesture |-> None,
               gesture_start_time |-> 0, last_trigger_time |-> <<>>]
    /\ streak_start = 0
    /\ events = <<>>

\* A state machine on its own, as in tests/test_state_machine.py.
Init ==
    FreshStateMachine /\ RecognizerUnused /\ CalibratorUnused /\ ThreadsUnused

\* One call update(detected_gesture, confidence, current_time).
update_vars(detected_gesture, confidence, current_time) ==
    LET r == update_fn(Self, detected_gesture, confidence, current_time)
    IN /\ state' = r.self.state
       /\ current_gesture' = r.self.current_gesture
       /\ gesture_start_time' = r.self.gesture_start_time
       /\ last_trigger_time' = r.self.last_trigger_time
       /\ now' = current_time
       /\ arg_gesture' = detected_gesture
       /\ arg_confidence' = confidence
       /\ ncalls' = IF ncalls < CallCountCap THEN ncalls + 1 ELSE ncalls
       /\ ret' = r.result
       /\ prev' = Self
       /\ streak_start' = IF ncalls > 0 /\ detected_gesture = arg_gesture
                          THEN streak_start ELSE current_time
       /\ events' = events \o r.result

\* A call of update on a state machine that is used on its own.
update(detected_gesture, confidence, current_time) ==
    /\ update_vars(detected_gesture, confidence, current_time)
    /\ UNCHANGED <<rec_vars, cal_vars, thread_vars>>

\* The caller's clock does not run backwards (time.perf_counter in
\* GestureRecognizer.recognize; increasing times in the tests).
Next ==
    \E g \in Candidates, c \in Confidences, t \in now..MaxTime :
        update(g, c, t)

Spec == Init /\ [][Next]_vars

\* The runs in which every call carries a confidence <= 0.7, as in
\* test_low_confidence_not_triggered.
LowConfidences == {c \in Confidences : c <= confidence_gate}

NextLowConfidence ==
    \E g \in Candidates, c \in LowConfidences, t \in now..MaxTime :
        update(g, c, t)

SpecLowConfidence == Init /\ [][NextLowConfidence]_vars

\* The runs in which current_time strictly increases from call to call, with
\* the calls counted: obs holds the number of calls made and, for each event
\* of `events`, the number of the call that returned it.

\* Largest current_time (in ticks) of a run with strictly increasing times.
MaxEventTime == 14

InitEvents ==
    /\ FreshStateMachine
    /\ ThreadsUnused
    /\ CalibratorUnused
    /\ rec_calibration = <<>>
    /\ prev_landmarks = <<>>
    /\ velocity_history = <<>>
    /\ last_frame = <<>>
    /\ obs = [calls |-> 0, event_calls |-> <<>>]
    /\ other = <<>>

\* A call of update that is counted.
update_counted(detected_gesture, confidence, current_time) ==
    /\ update_vars(detected_gesture, confidence, current_time)
    /\ obs' = [calls |-> obs.calls + 1,
               event_calls |-> IF ret' # <<>>
                               THEN Append(obs.event_calls, obs.calls + 1)
                               ELSE obs.event_calls]
    /\ UNCHANGED <<rec_calibration, prev_landmarks, velocity_history,
                   last_frame, other, cal_vars, thread_vars>>

\* The time between two calls, in ticks: less than the confirmation
\* duration, between the two durations, more than the cooldown duration.
EventSteps == {1, 3, 5}

\* The first call reads time 0; every later call reads a later time than the
\* call before it.
NextEvents ==
    \E g \in Candidates, c \in Confidences, d \in EventSteps :
        /\ now + d <= MaxEventTime
        /\ update_counted(g, c, IF obs.calls = 0 THEN 0 ELSE now + d)

SpecEvents == InitEvents /\ [][NextEvents]_vars

\* The runs that never end.  update only subtracts a stored time from
\* current_time and compares the difference with a duration, so the times
\* are kept relative to an origin that slides with the calls: after each
\* call the origin is moved so that the call's current_time is at most
\* LiveWindow, and a stored time that falls before the origin is kept at
\* the origin.  LiveWindow exceeds both durations, so a difference that is
\* cut was already, and stays, more than either duration.  For the same
\* reason every step of more than LiveWindow ticks acts as a step of
\* LiveWindow ticks does.

\* The width of the sliding window of times, in ticks.
LiveWindow == cooldown_duration + 1

\* The time t after the origin moved forward by shift
Earlier(t, shift) == IF t > shift THEN t - shift ELSE 0

\* The fields after the origin moved forward by shift
Rebased(self, shift) ==
    [self EXCEPT
        !.gesture_start_time = Earlier(self.gesture_start_time, shift),
        !.last_trigger_time =
            [k \in DOMAIN self.last_trigger_time |->
                Earlier(self.last_trigger_time[k], shift)]]

\* What update returned after the origin moved forward by shift
RebasedResult(result, shift) ==
    IF result = <<>> THEN <<>>
    ELSE <<[result[1] EXCEPT !.timestamp = Earlier(result[1].timestamp, shift)]>>

\* One call update(detected_gesture, confidence, current_time), after which
\* the origin of the times moves forward by shift.  The list of all events
\* is not kept.
update_sliding(detected_gesture, confidence, current_time, shift) ==
    LET r == update_fn(Self, detected_gesture, confidence, current_time)
        self == Rebased(r.self, shift)
    IN /\ state' = self.state
       /\ current_gesture' = self.current_gesture
       /\ gesture_start_time' = self.gesture_start_time
       /\ last_trigger_time' = self.last_trigger_time
       /\ now' = current_time - shift
       /\ arg_gesture' = detected_gesture
       /\ arg_confidence' = confidence
       /\ ncalls' = IF ncalls < CallCountCap THEN ncalls + 1 ELSE ncalls
       /\ ret' = RebasedResult(r.result, shift)
       /\ prev' = Rebased(Self, shift)
       /\ streak_start' = Earlier(IF ncalls > 0 /\ detected_gesture = arg_gesture
                                  THEN streak_start ELSE current_time, shift)
       /\ UNCHANGED <<events, rec_vars, cal_vars, thread_vars>>

\* Every call reads a later time than the call before it.
NextLive ==
    \E g \in Candidates, c \in Confidences, d \in 1..LiveWindow :
        update_sliding(g, c, now + d,
                       IF now + d > LiveWindow THEN now + d - LiveWindow ELSE 0)

\* update is called again and again, forever.
SpecLive == Init /\ [][NextLive]_vars /\ WF_vars(NextLive)

(***************************************************************************)
(* Part 2: landmark frames, the calibration baseline and the five          *)
(* detectors (src/gesture_recognizer.py), as pure operators.               *)
(*                                                                         *)
(* Units.  The program computes with floats; the model computes in fixed   *)
(* point.  Coordinates (x, y, z), visibilities, lengths and baseline       *)
(* lengths count 0.0001, so 0.35 is 3500 and a visibility of 1.0 is 10000; *)
(* the poses are written in hundredths with Pt.  Frame timestamps count    *)
(* 0.0001 s, so 0.033 s is 330 and the 0.001 s epsilon is 10.  Angles      *)
(* count 0.01 degree.  Velocities count 0.001 unit per second.  Square     *)
(* roots, arctangents and quotients are rounded down to that resolution;   *)
(* the model's poses keep clear of the thresholds by more than that.       *)
(***************************************************************************)

\* config.THRESHOLDS["lean_angle"] = 15.0 degrees
lean_angle == 1500

\* config.THRESHOLDS["hands_raised_ratio"] = 0.2, in hundredths
hands_raised_ratio == 20

\* config.THRESHOLDS["squat_drop_ratio"] = 0.25, in hundredths
squat_drop_ratio == 25

\* config.THRESHOLDS["punch_velocity"] = 1.5 units per second
punch_velocity == 1500

\* config.THRESHOLDS["punch_depth"] = 0.15
punch_depth == 1500

\* config.THRESHOLDS["crossed_arms_offset"] = 0.1
crossed_arms_offset == 1000

\* config.THRESHOLDS["min_visibility"] = 0.5
min_visibility == 5000

\* The literal 0.001 in `if dt < 0.001`
dt_epsilon == 10

\* deque(maxlen=3)
history_maxlen == 3

\* The exception Python raises for x / 0.0
ZeroDivisionError == "ZeroDivisionError"

\* A landmark is a tuple (x, y, z, visibility): landmark[0..3] in the code.
X(p) == p[1]
Y(p) == p[2]
Z(p) == p[3]
Vis(p) == p[4]

\* A landmark written in hundredths, as in tests/mock_data.py.
Pt(x, y, z, v) == <<100 * x, 100 * y, 100 * z, 100 * v>>

Abs(n) == IF n < 0 THEN -n ELSE n

Sign(n) == IF n < 0 THEN -1 ELSE IF n > 0 THEN 1 ELSE 0

RECURSIVE SumSeq(_)
\* sum(sequence)
SumSeq(s) == IF s = <<>> THEN 0 ELSE Head(s) + SumSeq(Tail(s))

RECURSIVE ISqrtBetween(_, _, _)
\* The largest r in lo..hi with r * r <= n, by bisection.
ISqrtBetween(n, lo, hi) ==
    IF lo >= hi THEN lo
    ELSE LET mid == (lo + hi + 1) \div 2
         IN IF mid * mid <= n THEN ISqrtBetween(n, mid, hi)
            ELSE ISqrtBetween(n, lo, mid - 1)

\* math.sqrt, rounded down
ISqrt(n) == ISqrtBetween(n, 0, 46340)

\* tan(k degrees) * 10000 for k = 0..45, at index k + 1
TanTable ==
    <<0, 175, 349, 524, 699, 875, 1051, 1228, 1405, 1584, 1763, 1944, 2126,
      2309, 2493, 2679, 2867, 3057, 3249, 3443, 3640, 3839, 4040, 4245, 4452,
      4663, 4877, 5095, 5317, 5543, 5774, 6009, 6249, 6494, 6745, 7002, 7265,
      7536, 7813, 8098, 8391, 8693, 9004, 9325, 9657, 10000>>

\* degrees(atan(p / q)) in 0.01 degree for 0 <= p <= q, q > 0: the whole
\* degree from the table, the rest by linear interpolation.
AtanOctant(p, q) ==
    LET k == CHOOSE d \in 0..45 :
                 /\ TanTable[d + 1] * q <= p * 10000
                 /\ d < 45 => p * 10000 < TanTable[d + 2] * q
    IN IF k = 45 THEN 4500
       ELSE 100 * k + (100 * (p * 10000 - TanTable[k + 1] * q))
                         \div ((TanTable[k + 2] - TanTable[k + 1]) * q)

\* degrees(math.atan2(y, x)) in 0.01 degree, in -18000..18000.  The zeros
\* the program passes are +0.0 (a difference of equal floats), for which
\* atan2(0, x) is 0 for x >= 0 and 180 for x < 0.
Atan2Deg(y, x) ==
    LET ay == Abs(y)
        ax == Abs(x)
        a == IF ay = 0 /\ ax = 0 THEN 0
             ELSE IF ay <= ax THEN AtanOctant(ay, ax)
             ELSE 9000 - AtanOctant(ax, ay)
    IN IF x >= 0 THEN Sign(y) * a
       ELSE IF y >= 0 THEN 18000 - a
       ELSE -(18000 - a)

\* utils.calculate_distance
calculate_distance(p1, p2) ==
    ISqrt((p1[1] - p2[1]) * (p1[1] - p2[1]) + (p1[2] - p2[2]) * (p1[2] - p2[2]))

\* CalibrationData(...) with the dataclass defaults for what is not given
CalibrationData(angle, width, torso, hip, wrist_z, calibrated) ==
    [neutral_torso_angle |-> angle,
     shoulder_width |-> width,
     torso_length |-> torso,
     neutral_hip_height |-> hip,
     wrist_neutral_z |-> wrist_z,
     is_calibrated |-> calibrated,
     calibration_frames |-> <<>>]

\* CalibrationData(): every scalar 0.0, is_calibrated False
DefaultCalibrationData == CalibrationData(0, 0, 0, 0, 0, FALSE)

\* tests/mock_data.py, create_mock_landmarks: the T-pose defaults
DefaultLandmarks ==
    [left_shoulder |-> Pt(30, 30, 0, 100), right_shoulder |-> Pt(70, 30, 0, 100),
     left_elbow |-> Pt(20, 50, 0, 100), right_elbow |-> Pt(80, 50, 0, 100),
     left_wrist |-> Pt(10, 50, 0, 100), right_wrist |-> Pt(90, 50, 0, 100),
     left_hip |-> Pt(35, 70, 0, 100), right_hip |-> Pt(65, 70, 0, 100),
     left_knee |-> Pt(35, 85, 0, 100), right_knee |-> Pt(65, 85, 0, 100),
     left_ankle |-> Pt(35, 100, 0, 100), right_ankle |-> Pt(65, 100, 0, 100),
     timestamp |-> 0]

\* defaults.update(overrides)
create_mock_landmarks(overrides) ==
    [k \in DOMAIN DefaultLandmarks |->
        IF k \in DOMAIN overrides THEN overrides[k] ELSE DefaultLandmarks[k]]

\* The frame `pose` with its timestamp set to ts.
AtTime(pose, ts) == [pose EXCEPT !.timestamp = ts]

\* A call that returns v, and a call that raises e.
Return(v) == [exception |-> None, value |-> <<v>>]
Raise(e) == [exception |-> e, value |-> <<>>]

\* ------------------------------------------------ Python floats (binary64)
\* The stateless detectors compare sums, differences, products and quotients
\* of floats with thresholds, and on the frames of the unit tests the
\* rounding of those operations decides the comparison.  A float is modelled
\* exactly: [s, m, e] stands for s * m * 2^e with s in {1, -1} and m a
\* natural number that is zero or in [2^52, 2^53).  Naturals of that size
\* are sequences of limbs in base 2^15, least significant limb first, with
\* no leading zero limb (<<>> is 0).  Every operation computes the exact
\* result and rounds it to the nearest float, ties to even, as IEEE 754
\* does.  Results stay far from the subnormal and the overflow range.

RECURSIVE Pow2(_)
\* 2^k for 0 <= k <= 30
Pow2(k) == IF k = 0 THEN 1 ELSE 2 * Pow2(k - 1)

\* The base of a limb.
LimbBase == Pow2(15)

RECURSIVE BNorm(_)
\* a without its leading zero limbs
BNorm(a) ==
    IF a = <<>> THEN <<>>
    ELSE IF a[Len(a)] = 0 THEN BNorm(SubSeq(a, 1, Len(a) - 1)) ELSE a

RECURSIVE BFromInt(_)
\* the natural number n as limbs
BFromInt(n) ==
    IF n = 0 THEN <<>> ELSE <<n % LimbBase>> \o BFromInt(n \div LimbBase)

RECURSIVE BAddCarry(_, _, _)
BAddCarry(a, b, c) ==
    IF a = <<>> /\ b = <<>> THEN (IF c = 0 THEN <<>> ELSE <<c>>)
    ELSE LET x == IF a = <<>> THEN 0 ELSE Head(a)
             y == IF b = <<>> THEN 0 ELSE Head(b)
             t == x + y + c
         IN <<t % LimbBase>> \o
            BAddCarry(IF a = <<>> THEN <<>> ELSE Tail(a),
                      IF b = <<>> THEN <<>> ELSE Tail(b),
                      t \div LimbBase)

\* a + b
BAdd(a, b) == BAddCarry(a, b, 0)

RECURSIVE BSubBorrow(_, _, _)
BSubBorrow(a, b, c) ==
    IF a = <<>> THEN <<>>
    ELSE LET y == IF b = <<>> THEN 0 ELSE Head(b)
             t == Head(a) - y - c
         IN <<IF t < 0 THEN t + LimbBase ELSE t>> \o
            BSubBorrow(Tail(a), IF b = <<>> THEN <<>> ELSE Tail(b),
                       IF t < 0 THEN 1 ELSE 0)

\* a - b for a >= b
BSub(a, b) == BNorm(BSubBorrow(a, b, 0))

RECURSIVE BCmpFrom(_, _, _)
BCmpFrom(a, b, i) ==
    IF i = 0 THEN 0
    ELSE IF a[i] < b[i] THEN -1
    ELSE IF a[i] > b[i] THEN 1
    ELSE BCmpFrom(a, b, i - 1)

\* -1, 0 or 1 as a < b, a = b or a > b
BCmp(a, b) ==
    IF Len(a) < Len(b) THEN -1
    ELSE IF Len(a) > Len(b) THEN 1
    ELSE BCmpFrom(a, b, Len(a))

RECURSIVE BMulLimbCarry(_, _, _)
BMulLimbCarry(a, d, c) ==
    IF a = <<>> THEN (IF c = 0 THEN <<>> ELSE <<c>>)
    ELSE LET t == Head(a) * d + c
         IN <<t % LimbBase>> \o BMulLimbCarry(Tail(a), d, t \div LimbBase)

\* a * d for a limb d
BMulLimb(a, d) == IF d = 0 THEN <<>> ELSE BMulLimbCarry(a, d, 0)

RECURSIVE BMul(_, _)
\* a * b
BMul(a, b) ==
    IF b = <<>> \/ a = <<>> THEN <<>>
    ELSE BAdd(BMulLimb(a, Head(b)),
              LET r == BMul(a, Tail(b)) IN IF r = <<>> THEN <<>> ELSE <<0>> \o r)

RECURSIVE Zeros(_)
Zeros(n) == IF n = 0 THEN <<>> ELSE <<0>> \o Zeros(n - 1)

\* a * 2^k
BShl(a, k) ==
    IF a = <<>> THEN <<>>
    ELSE Zeros(k \div 15) \o BMulLimb(a, Pow2(k % 15))

RECURSIVE IntBitLen(_)
\* the number of bits of the natural number n
IntBitLen(n) == IF n = 0 THEN 0 ELSE 1 + IntBitLen(n \div 2)

\* the number of bits of a
BBitLen(a) == IF a = <<>> THEN 0 ELSE 15 * (Len(a) - 1) + IntBitLen(a[Len(a)])

\* bit i of a, bit 0 the least significant
BBit(a, i) ==
    IF i \div 15 >= Len(a) THEN 0
    ELSE (a[i \div 15 + 1] \div Pow2(i % 15)) % 2

RECURSIVE BDigit(_, _, _, _)
\* The largest g in lo..hi with d * g <= r, by bisection (d * lo <= r).
BDigit(r, d, lo, hi) ==
    IF lo >= hi THEN lo
    ELSE LET mid == (lo + hi + 1) \div 2
         IN IF BCmp(BMulLimb(d, mid), r) <= 0 THEN BDigit(r, d, mid, hi)
            ELSE BDigit(r, d, lo, mid - 1)

RECURSIVE BDivMod(_, _)

\* The step of the long division for the partial remainder r2 and its digit g.
DivDigit(q, r2, d, g) == [q |-> BNorm(<<g>> \o q), r |-> BSub(r2, BMulLimb(d, g))]

DivLimb(q, r2, d) == DivDigit(q, r2, d, BDigit(r2, d, 0, LimbBase - 1))

DivStep(p, limb, d) == DivLimb(p.q, BNorm(<<limb>> \o p.r), d)

\* [q, r] with n = q * d + r and r < d, for d > 0: long division in base
\* 2^15, from the most significant limb of n.
BDivMod(n, d) ==
    IF n = <<>> THEN [q |-> <<>>, r |-> <<>>]
    ELSE DivStep(BDivMod(Tail(n), d), Head(n), d)

\* The float 0.0.
FZero == [s |-> 1, m |-> <<>>, e |-> 0]

\* The float s * m * 2^e for a mantissa m of 53 bits, or of 54 bits after a
\* rounding that carried into 2^53 = 2^52 * 2.
Pack(s, m, e) ==
    IF BBitLen(m) = 54 THEN [s |-> s, m |-> BShl(<<1>>, 52), e |-> e + 1]
    ELSE [s |-> s, m |-> m, e |-> e]

\* q rounded up when the dropped bits are more than half a unit (c > 0), or
\* exactly half (c = 0) with something left beyond them (sticky) or with q
\* odd: round to nearest, ties to even.
RoundUp(s, q, c, sticky, e) ==
    Pack(s,
         IF c > 0 \/ (c = 0 /\ (sticky \/ BBit(q, 0) = 1)) THEN BAdd(q, <<1>>)
         ELSE q,
         e)

\* top = [q, r]: the leading 53 bits of the quotient and the t bits dropped.
RoundDropped(s, top, half, sticky, e) ==
    RoundUp(s, top.q, BCmp(top.r, half), sticky, e)

\* qr = [q, r]: a quotient of 53 + t bits (t = 1 or 2) and its remainder.
RoundQuotient(s, qr, t, e) ==
    RoundDropped(s, BDivMod(qr.q, BFromInt(Pow2(t))), BFromInt(Pow2(t - 1)),
                 qr.r # <<>>, e + t)

\* n / d with n or d scaled by 2^|k| so that the quotient has 54 or 55 bits.
RoundScaled(s, qr, e) == RoundQuotient(s, qr, BBitLen(qr.q) - 53, e)

RoundShifted(s, n, d, e, k) ==
    RoundScaled(s,
                BDivMod(IF k >= 0 THEN BShl(n, k) ELSE n,
                        IF k >= 0 THEN d ELSE BShl(d, -k)),
                e - k)

\* The float nearest to s * (n / d) * 2^e, ties to even, for naturals n and
\* d > 0.  The quotient is taken with 54 or 55 bits and the bits beyond the
\* 53rd, with what the division left over, decide the rounding.
RoundRat(s, n, d, e) ==
    IF n = <<>> THEN [s |-> s, m |-> <<>>, e |-> 0]
    ELSE RoundShifted(s, n, d, e, 54 - (BBitLen(n) - BBitLen(d)))

\* float(n / scale) for an integer n: the float a decimal literal denotes
FromDecimal(n, scale) ==
    RoundRat(IF n < 0 THEN -1 ELSE 1, BFromInt(IF n < 0 THEN -n ELSE n),
             BFromInt(scale), 0)

\* -x
FNeg(x) == [x EXCEPT !.s = -x.s]

\* abs(x)
FAbs(x) == [x EXCEPT !.s = 1]

\* sx * nx + sy * ny for magnitudes nx, ny at the common exponent e, where
\* c is the order of nx and ny
AddCompared(sx, nx, sy, ny, c, e) ==
    IF sx # sy /\ c = 0 THEN FZero
    ELSE RoundRat(IF sx = sy \/ c > 0 THEN sx ELSE sy,
                  IF sx = sy THEN BAdd(nx, ny)
                  ELSE IF c > 0 THEN BSub(nx, ny) ELSE BSub(ny, nx),
                  <<1>>, e)

AddAligned(sx, nx, sy, ny, e) == AddCompared(sx, nx, sy, ny, BCmp(nx, ny), e)

\* x + y for x and y other than zero, e the smaller of their exponents
AddAt(x, y, e) == AddAligned(x.s, BShl(x.m, x.e - e), y.s, BShl(y.m, y.e - e), e)

\* x + y
FAdd(x, y) ==
    IF x.m = <<>> THEN (IF y.m = <<>> /\ x.s # y.s THEN FZero ELSE y)
    ELSE IF y.m = <<>> THEN x
    ELSE AddAt(x, y, IF x.e < y.e THEN x.e ELSE y.e)

\* x - y
FSub(x, y) == FAdd(x, FNeg(y))

\* x * y
FMul(x, y) == RoundRat(x.s * y.s, BMul(x.m, y.m), <<1>>, x.e + y.e)

\* x / y for y other than zero
FDiv(x, y) == RoundRat(x.s * y.s, x.m, y.m, x.e - y.e)

\* The order of |x| and |y|: -1, 0 or 1.  Mantissas are normalized, so the
\* exponent decides first.
FCmpMagnitude(x, y) ==
    IF x.m = <<>> THEN (IF y.m = <<>> THEN 0 ELSE -1)
    ELSE IF y.m = <<>> THEN 1
    ELSE IF x.e # y.e THEN (IF x.e > y.e THEN 1 ELSE -1)
    ELSE BCmp(x.m, y.m)

\* The sign of x: -1, 0 or 1.
FSign(x) == IF x.m = <<>> THEN 0 ELSE x.s

\* The order of x and y: -1 (x < y), 0 (x == y) or 1 (x > y).
FCmp(x, y) ==
    IF FSign(x) # FSign(y) THEN (IF FSign(x) > FSign(y) THEN 1 ELSE -1)
    ELSE FSign(x) * FCmpMagnitude(x, y)

FLt(x, y) == FCmp(x, y) < 0
FGt(x, y) == FCmp(x, y) > 0

\* The coordinates of tests/mock_data.py: hundredths from 0.0 to 1.0.
MockCoordinates == {100 * i : i \in 0..100}

\* The floats of the mock coordinates, computed once.
FloatTable == [k \in MockCoordinates |-> FromDecimal(k, 10000)] @@ <<>>

\* The float of the coordinate k (k * 0.0001), a coordinate of a mock frame
\* or of a baseline of the tests.
F(k) == FloatTable[k]

\* The float of the ratio k (k * 0.01).
FRatio(k) == FromDecimal(k, 100)

\* The left and right coordinates of a joint pair in the mock frames: equal
\* (y), 0.4 apart (shoulder x) or 0.3 apart (hip x).
MockPairs ==
    {p \in MockCoordinates \X MockCoordinates : p[2] - p[1] \in {0, 3000, 4000}}

\* (a + b) / 2 on the floats of the coordinates of each mock pair, computed
\* once.
MeanTable ==
    [p \in MockPairs |-> FDiv(FAdd(F(p[1]), F(p[2])), FromDecimal(2, 1))] @@ <<>>

\* (left + right) / 2 on the floats of one coordinate of a joint pair
FMean2(left, right) == MeanTable[<<left, right>>]

\* x < y and x > y for floats x and y computed from coordinates, where d is
\* the sign-carrying exact difference (x - y on the reals, scaled by a
\* positive integer).  The coordinates are multiples of 0.0001, so a nonzero
\* exact difference is at least 10^-7 while the rounding of a handful of
\* operations on values below 2 moves a result by less than 10^-14: the
\* rounding decides the comparison only when the exact values are equal, and
\* only then are the floats computed.
Less(d, x, y) == IF d # 0 THEN d < 0 ELSE FLt(x, y)
Greater(d, x, y) == IF d # 0 THEN d > 0 ELSE FGt(x, y)

\* LeanDetector.detect, lines 50-52: degrees(atan2(dx, dy)) in 0.01 degree,
\* given 2 * dx and 2 * dy without rounding and whether the float dx is
\* negative.  When the two centres have the same exact x, the float dx is
\* +0.0 or a rounding residue of either sign; with dy < 0 that sign decides
\* between atan2 = 180 (dx >= 0) and -180 (dx < 0).  Elsewhere a residue
\* moves the angle by less than 10^-9 degree.  (Frames whose two centres
\* coincide in both coordinates are not among the inputs.)
torso_angle(dx2, dy2, dx_negative) ==
    IF dx2 = 0 /\ dy2 < 0 /\ dx_negative THEN -18000 ELSE Atan2Deg(dx2, dy2)

\* LeanDetector.detect, lines 44-52
frame_torso_angle(landmarks, dx2) ==
    torso_angle(dx2,
                (Y(landmarks.left_shoulder) + Y(landmarks.right_shoulder))
                    - (Y(landmarks.left_hip) + Y(landmarks.right_hip)),
                Less(dx2,
                     FMean2(X(landmarks.left_shoulder), X(landmarks.right_shoulder)),
                     FMean2(X(landmarks.left_hip), X(landmarks.right_hip))))

\* LeanDetector.detect, lines 57-61
lean_classify(relative_angle) ==
    IF relative_angle < -lean_angle THEN "lean_left"
    ELSE IF relative_angle > lean_angle THEN "lean_right"
    ELSE None

\* LeanDetector.detect
lean_detect(landmarks, calibration) ==
    lean_classify(
        frame_torso_angle(landmarks,
                          (X(landmarks.left_shoulder) + X(landmarks.right_shoulder))
                              - (X(landmarks.left_hip) + X(landmarks.right_hip)))
            - calibration.neutral_torso_angle)

\* HandsRaisedDetector.detect, lines 80-81:
\* shoulder_avg_y - ratio * torso_length
hands_threshold(shoulder_avg_y, hip_center_y) ==
    FSub(shoulder_avg_y,
         FMul(FRatio(hands_raised_ratio), FAbs(FSub(shoulder_avg_y, hip_center_y))))

\* HandsRaisedDetector.detect, lines 80-81: wrist y < threshold, where
\* threshold200 is 200 * the threshold without rounding.
wrist_raised(wrist, threshold200, threshold) ==
    Less(200 * Y(wrist) - threshold200, F(Y(wrist)), threshold)

\* HandsRaisedDetector.detect, lines 80-87
hands_raised_given(landmarks, threshold200, threshold) ==
    /\ wrist_raised(landmarks.left_wrist, threshold200, threshold)
    /\ wrist_raised(landmarks.right_wrist, threshold200, threshold)
    /\ Vis(landmarks.left_wrist) > min_visibility
    /\ Vis(landmarks.right_wrist) > min_visibility

\* 200 * (shoulder_avg_y - ratio * torso_length) without rounding, given
\* 2 * shoulder_avg_y and 2 * hip_center_y
hands_threshold200(shoulder2, hip2) ==
    100 * shoulder2 - hands_raised_ratio * Abs(shoulder2 - hip2)

\* HandsRaisedDetector.detect
hands_raised_detect(landmarks) ==
    hands_raised_given(
        landmarks,
        hands_threshold200(Y(landmarks.left_shoulder) + Y(landmarks.right_shoulder),
                           Y(landmarks.left_hip) + Y(landmarks.right_hip)),
        hands_threshold(
            FMean2(Y(landmarks.left_shoulder), Y(landmarks.right_shoulder)),
            FMean2(Y(landmarks.left_hip), Y(landmarks.right_hip))))

\* Variant of squat_detect that compares the quotient with the ratio on the
\* reals, without the rounding of the float operations.
squat_detect_exact(landmarks, calibration) ==
    IF calibration.torso_length = 0 THEN Raise(ZeroDivisionError)
    ELSE Return(100 * (Y(landmarks.left_hip) + Y(landmarks.right_hip)
                           - 2 * calibration.neutral_hip_height)
                    * Sign(calibration.torso_length)
                  > 2 * squat_drop_ratio * Abs(calibration.torso_length))

\* SquatDetector.detect.  hip_drop / torso_length raises ZeroDivisionError
\* when torso_length is 0.0.  The exact difference of the quotient and the
\* ratio is taken times 200 * |torso_length|.
squat_detect(landmarks, calibration) ==
    IF calibration.torso_length = 0 THEN Raise(ZeroDivisionError)
    ELSE Return(
        Greater(100 * (Y(landmarks.left_hip) + Y(landmarks.right_hip)
                           - 2 * calibration.neutral_hip_height)
                    * Sign(calibration.torso_length)
                  - 2 * squat_drop_ratio * Abs(calibration.torso_length),
                FDiv(FSub(FMean2(Y(landmarks.left_hip), Y(landmarks.right_hip)),
                          F(calibration.neutral_hip_height)),
                     F(calibration.torso_length)),
                FRatio(squat_drop_ratio)))

\* Variant of wrist_in_front that only asks the wrist to be above the hips.
wrist_in_front_above_hips(wrist, shoulder2, shoulder_y, hip2, hip_y) ==
    Less(2 * Y(wrist) - hip2, F(Y(wrist)), hip_y)

\* CrossedArmsDetector.detect, lines 201-202: shoulder_y < wrist y < hip_y,
\* given 2 * shoulder_y and 2 * hip_y without rounding
wrist_in_front(wrist, shoulder2, shoulder_y, hip2, hip_y) ==
    /\ Less(shoulder2 - 2 * Y(wrist), shoulder_y, F(Y(wrist)))
    /\ Less(2 * Y(wrist) - hip2, F(Y(wrist)), hip_y)

\* CrossedArmsDetector.detect, lines 189-195, given 2 * body_center_x
\* without rounding
wrists_crossed(landmarks, center2, body_center_x) ==
    /\ Greater(2 * X(landmarks.left_wrist) - center2 - 2 * crossed_arms_offset,
               F(X(landmarks.left_wrist)),
               FAdd(body_center_x, F(crossed_arms_offset)))
    /\ Less(2 * X(landmarks.right_wrist) - center2 + 2 * crossed_arms_offset,
            F(X(landmarks.right_wrist)),
            FSub(body_center_x, F(crossed_arms_offset)))

\* CrossedArmsDetector.detect, lines 198-208
wrists_in_front(landmarks, shoulder2, shoulder_y, hip2, hip_y) ==
    /\ wrist_in_front(landmarks.left_wrist, shoulder2, shoulder_y, hip2, hip_y)
    /\ wrist_in_front(landmarks.right_wrist, shoulder2, shoulder_y, hip2, hip_y)
    /\ Vis(landmarks.left_wrist) > min_visibility
    /\ Vis(landmarks.right_wrist) > min_visibility

\* CrossedArmsDetector.detect
crossed_arms_detect(landmarks) ==
    /\ wrists_crossed(
           landmarks,
           X(landmarks.left_shoulder) + X(landmarks.right_shoulder),
           FMean2(X(landmarks.left_shoulder), X(landmarks.right_shoulder)))
    /\ wrists_in_front(
           landmarks,
           Y(landmarks.left_shoulder) + Y(landmarks.right_shoulder),
           FMean2(Y(landmarks.left_shoulder), Y(landmarks.right_shoulder)),
           Y(landmarks.left_hip) + Y(landmarks.right_hip),
           FMean2(Y(landmarks.left_hip), Y(landmarks.right_hip)))

\* Variant of calculate_velocity that returns the distance moved between the
\* two frames, not divided by dt.
calculate_velocity_per_frame(current, previous, dt) ==
    LET dx == X(current) - X(previous)
        dy == Y(current) - Y(previous)
    IN ISqrt(dx * dx + dy * dy) \div 10

\* PunchDetector._calculate_velocity
calculate_velocity(current, previous, dt) ==
    LET dx == X(current) - X(previous)
        dy == Y(current) - Y(previous)
    IN (1000 * ISqrt(dx * dx + dy * dy)) \div dt

\* deque(maxlen=3).append
DequeAppend(d, v) ==
    IF Len(d) < history_maxlen THEN Append(d, v) ELSE Append(Tail(d), v)

\* PunchDetector.__init__: the fields of a fresh detector.  prev_landmarks is
\* <<>> for None and <<f>> for the frame f.
NewPunchDetector ==
    [prev_landmarks |-> <<>>,
     velocity_history |-> [left |-> <<>>, right |-> <<>>]]

\* Variant of punch_detect_main that checks the left hand before the right.
punch_detect_main_left_first(self, landmarks, calibration, dt) ==
    LET prev_frame == self.prev_landmarks[1]
        left_history ==
            DequeAppend(self.velocity_history.left,
                        calculate_velocity(landmarks.left_wrist,
                                           prev_frame.left_wrist, dt))
        right_history ==
            DequeAppend(self.velocity_history.right,
                        calculate_velocity(landmarks.right_wrist,
                                           prev_frame.right_wrist, dt))
        after == [prev_landmarks |-> <<landmarks>>,
                  velocity_history |-> [left |-> left_history,
                                        right |-> right_history]]
    IN IF /\ SumSeq(left_history) \div Len(left_history) > punch_velocity
          /\ Z(landmarks.left_wrist) - calibration.wrist_neutral_z < -punch_depth
          /\ Vis(landmarks.left_wrist) > min_visibility
       THEN [self |-> after, result |-> "punch_left"]
       ELSE IF /\ SumSeq(right_history) \div Len(right_history) > punch_velocity
               /\ Z(landmarks.right_wrist) - calibration.wrist_neutral_z < -punch_depth
               /\ Vis(landmarks.right_wrist) > min_visibility
       THEN [self |-> after, result |-> "punch_right"]
       ELSE [self |-> after, result |-> None]

\* PunchDetector.detect, after the two early returns
punch_detect_main(self, landmarks, calibration, dt) ==
    LET prev_frame == self.prev_landmarks[1]
        left_velocity == calculate_velocity(landmarks.left_wrist,
                                            prev_frame.left_wrist, dt)
        right_velocity == calculate_velocity(landmarks.right_wrist,
                                             prev_frame.right_wrist, dt)
        left_history == DequeAppend(self.velocity_history.left, left_velocity)
        right_history == DequeAppend(self.velocity_history.right, right_velocity)
        avg_left_vel == IF left_history # <<>>
                        THEN SumSeq(left_history) \div Len(left_history) ELSE 0
        avg_right_vel == IF right_history # <<>>
                         THEN SumSeq(right_history) \div Len(right_history) ELSE 0
        left_depth_change == Z(landmarks.left_wrist) - calibration.wrist_neutral_z
        right_depth_change == Z(landmarks.right_wrist) - calibration.wrist_neutral_z
        after == [prev_landmarks |-> <<landmarks>>,
                  velocity_history |-> [left |-> left_history,
                                        right |-> right_history]]
    IN IF /\ avg_right_vel > punch_velocity
          /\ right_depth_change < -punch_depth
          /\ Vis(landmarks.right_wrist) > min_visibility
       THEN [self |-> after, result |-> "punch_right"]
       ELSE IF /\ avg_left_vel > punch_velocity
               /\ left_depth_change < -punch_depth
               /\ Vis(landmarks.left_wrist) > min_visibility
       THEN [self |-> after, result |-> "punch_left"]
       ELSE [self |-> after, result |-> None]

\* Variant of punch_detect that checks dt for zero only (dt <= 0).
punch_detect_zero_only(self, landmarks, calibration) ==
    IF self.prev_landmarks = <<>>
    THEN [self |-> [self EXCEPT !.prev_landmarks = <<landmarks>>],
          result |-> None]
    ELSE LET dt == landmarks.timestamp - self.prev_landmarks[1].timestamp
         IN IF dt <= 0 THEN [self |-> self, result |-> None]
            ELSE punch_detect_main(self, landmarks, calibration, dt)

\* Variant of punch_detect whose first call does not store the frame.
punch_detect_no_store(self, landmarks, calibration) ==
    IF self.prev_landmarks = <<>>
    THEN [self |-> self, result |-> None]
    ELSE LET dt == landmarks.timestamp - self.prev_landmarks[1].timestamp
         IN IF dt < dt_epsilon THEN [self |-> self, result |-> None]
            ELSE punch_detect_main(self, landmarks, calibration, dt)

\* PunchDetector.detect: the new fields and the returned value
punch_detect(self, landmarks, calibration) ==
    IF self.prev_landmarks = <<>>
    THEN [self |-> [self EXCEPT !.prev_landmarks = <<landmarks>>],
          result |-> None]
    ELSE LET dt == landmarks.timestamp - self.prev_landmarks[1].timestamp
         IN IF dt < dt_epsilon THEN [self |-> self, result |-> None]
            ELSE punch_detect_main(self, landmarks, calibration, dt)

\* ------------------------------------------------- frames and baselines

\* The largest number of frames passed to one detector or recognizer.
MaxFrames == 4

\* tests/mock_data.py, NEUTRAL_POSE: the T-pose
NEUTRAL_POSE == DefaultLandmarks

\* tests/mock_data.py, HANDS_RAISED_POSE
HANDS_RAISED_POSE ==
    create_mock_landmarks([left_wrist |-> Pt(20, 15, 0, 100),
                           right_wrist |-> Pt(80, 15, 0, 100)])

\* Both wrists 0.15 past the body centre at chest height: CROSSED_ARMS_POSE
\* of tests/mock_data.py with the wrists 0.05 further across.
CROSSED_POSE ==
    create_mock_landmarks([left_wrist |-> Pt(65, 50, 0, 100),
                           right_wrist |-> Pt(35, 50, 0, 100)])

\* Hips 0.15 below the T-pose hips: SQUAT_POSE of tests/mock_data.py, 0.05
\* deeper.
DEEP_SQUAT_POSE ==
    create_mock_landmarks([left_hip |-> Pt(35, 85, 0, 100),
                           right_hip |-> Pt(65, 85, 0, 100)])

\* Shoulders 0.15 to the side of the hips (the lean poses of
\* tests/mock_data.py move shoulders and hips together).
LEAN_POSE ==
    create_mock_landmarks([left_shoulder |-> Pt(45, 30, 0, 100),
                           right_shoulder |-> Pt(85, 30, 0, 100)])

\* The right wrist 0.05 further out than in the T-pose and 0.2 forward, as
\* between the frames of PUNCH_RIGHT_POSE_SEQUENCE.
PUNCH_RIGHT_POSE ==
    create_mock_landmarks([right_wrist |-> Pt(95, 50, -20, 100)])

\* The same for the left wrist.
PUNCH_LEFT_POSE ==
    create_mock_landmarks([left_wrist |-> Pt(5, 50, -20, 100)])

\* The joint tuples a frame can hold.
Poses ==
    {NEUTRAL_POSE, HANDS_RAISED_POSE, CROSSED_POSE, DEEP_SQUAT_POSE, LEAN_POSE,
     PUNCH_RIGHT_POSE, PUNCH_LEFT_POSE}

\* The time between one frame and the next, in 0.0001 s: the same instant,
\* half a millisecond, a frame at 30 frames per second.
FrameSteps == {0, 5, 330}

\* The baseline of the unit tests: CalibrationData(neutral_torso_angle=0.0,
\* torso_length=0.4, neutral_hip_height=0.7, ...).
TestBaseline == CalibrationData(0, 4000, 4000, 7000, 0, TRUE)

\* The baseline that calibration computes from T-pose frames.
TPoseBaseline == CalibrationData(18000, 4000, 4000, 7000, 0, TRUE)

\* The baselines a recognizer is constructed with.
Baselines == {DefaultCalibrationData, TestBaseline, TPoseBaseline}

\* The frames that can follow the frames passed so far: any pose, at a
\* timestamp that does not go back.
NextFrames(poses, last) ==
    IF last = <<>> THEN {AtTime(p, 0) : p \in poses}
    ELSE {AtTime(p, last[1].timestamp + d) : p \in poses, d \in FrameSteps}

\* The time between two frames passed to a recognizer, in 0.0001 s.
RecFrameSteps == {0, 330}

\* The frames that can follow the frames passed to a recognizer.
NextFramesRec(last) ==
    IF last = <<>> THEN {AtTime(p, 0) : p \in Poses}
    ELSE {AtTime(p, last[1].timestamp + d) : p \in Poses, d \in RecFrameSteps}

\* The poses of a player who only punches.
PunchPoses == {NEUTRAL_POSE, PUNCH_RIGHT_POSE, PUNCH_LEFT_POSE}

\* obs before the first call
NoCalls == [calls |-> 0, log |-> <<>>]

\* tests/mock_data.py, LEAN_LEFT_POSE: shoulders and hips 0.05 to the left
LEAN_LEFT_POSE ==
    create_mock_landmarks([left_shoulder |-> Pt(25, 30, 0, 100),
                           right_shoulder |-> Pt(65, 30, 0, 100),
                           left_hip |-> Pt(30, 70, 0, 100),
                           right_hip |-> Pt(60, 70, 0, 100)])

\* tests/mock_data.py, LEAN_RIGHT_POSE: shoulders and hips 0.05 to the right
LEAN_RIGHT_POSE ==
    create_mock_landmarks([left_shoulder |-> Pt(35, 30, 0, 100),
                           right_shoulder |-> Pt(75, 30, 0, 100),
                           left_hip |-> Pt(40, 70, 0, 100),
                           right_hip |-> Pt(70, 70, 0, 100)])

\* tests/mock_data.py, SQUAT_POSE
SQUAT_POSE ==
    create_mock_landmarks([left_hip |-> Pt(35, 80, 0, 100),
                           right_hip |-> Pt(65, 80, 0, 100),
                           left_knee |-> Pt(35, 90, 0, 100),
                           right_knee |-> Pt(65, 90, 0, 100)])

\* tests/mock_data.py, CROSSED_ARMS_POSE
CROSSED_ARMS_POSE ==
    create_mock_landmarks([left_wrist |-> Pt(60, 50, 0, 100),
                           right_wrist |-> Pt(40, 50, 0, 100)])

\* ------------------------------------------- the stateless detectors alone
\* The frames of the detector tests and their neighbours: the T-pose of
\* create_mock_landmarks with the shoulder centre at x = sx, the hip centre
\* at x = hx, the shoulders at y = sy, the hips at y = hy (hundredths), the
\* wrists at w = <<left, right>> (each <<x, y>>) with visibilities v.
DetFrame(sx, hx, sy, hy, w, v) ==
    create_mock_landmarks(
        [left_shoulder |-> Pt(sx - 20, sy, 0, 100),
         right_shoulder |-> Pt(sx + 20, sy, 0, 100),
         left_hip |-> Pt(hx - 15, hy, 0, 100),
         right_hip |-> Pt(hx + 15, hy, 0, 100),
         left_wrist |-> Pt(w[1][1], w[1][2], 0, v[1]),
         right_wrist |-> Pt(w[2][1], w[2][2], 0, v[2])])

\* <<shoulder centre, hip centre>>: the T-pose, LEAN_LEFT_POSE,
\* LEAN_RIGHT_POSE, and the T-pose with the shoulders moved by 0.15 either
\* way.
TorsoCenters == {<<50, 50>>, <<45, 45>>, <<55, 55>>, <<35, 50>>, <<65, 50>>}

\* Shoulder heights: the T-pose and 0.05 higher.  Hip heights: the T-pose,
\* SQUAT_POSE (80) and 0.05 either side of it.
ShoulderHeights == {25, 30}
HipHeights == {70, 75, 80, 85}

\* Wrists: the T-pose, HANDS_RAISED_POSE, raised to y = 0.22, only the left
\* one raised, CROSSED_ARMS_POSE, crossed 0.05 further, and crossed that
\* far with both wrists raised, with both at y = 0.25 and with only the
\* left one raised.
WristPairs ==
    {<<<<10, 50>>, <<90, 50>>>>, <<<<20, 15>>, <<80, 15>>>>,
     <<<<20, 22>>, <<80, 22>>>>, <<<<20, 15>>, <<90, 50>>>>,
     <<<<60, 50>>, <<40, 50>>>>, <<<<65, 50>>, <<35, 50>>>>,
     <<<<65, 15>>, <<35, 15>>>>, <<<<65, 25>>, <<35, 25>>>>,
     <<<<65, 15>>, <<35, 50>>>>}

\* Wrist visibilities: both 1.0, the left one 0.5, the right one 0.3.
WristVisibilities == {<<100, 100>>, <<50, 100>>, <<100, 30>>}

DetFrames ==
    {DetFrame(c[1], c[2], sy, hy, w, v) :
        c \in TorsoCenters, sy \in ShoulderHeights,
        hy \in HipHeights, w \in WristPairs, v \in WristVisibilities}
    \cup {SQUAT_POSE}

\* setUp of the detector tests: a detector and a baseline, nothing called.
InitDet ==
    /\ FreshStateMachine
    /\ ThreadsUnused
    /\ CalibratorUnused
    /\ rec_calibration \in Baselines
    /\ prev_landmarks = <<>>
    /\ velocity_history = <<>>
    /\ last_frame = <<>>
    /\ obs = NoCalls
    /\ other = <<>>

\* One call of a stateless detector on the fixture; obs keeps the detector,
\* the frame and what the call returned or raised.
detector_call(name, landmarks, outcome) ==
    /\ obs = NoCalls
    /\ obs' = [calls |-> 1, detector |-> name, frame |-> landmarks,
               outcome |-> outcome]
    /\ UNCHANGED <<rec_calibration, prev_landmarks, velocity_history,
                   last_frame, other, fsm_vars, cal_vars, thread_vars>>

\* LeanDetector().detect(landmarks, baseline)
LeanDetector_detect(landmarks) ==
    detector_call("lean", landmarks, Return(lean_detect(landmarks, rec_calibration)))

\* HandsRaisedDetector().detect(landmarks)
HandsRaisedDetector_detect(landmarks) ==
    detector_call("hands_raised", landmarks, Return(hands_raised_detect(landmarks)))

\* SquatDetector().detect(landmarks, baseline)
SquatDetector_detect(landmarks) ==
    detector_call("squat", landmarks, squat_detect(landmarks, rec_calibration))

\* CrossedArmsDetector().detect(landmarks)
CrossedArmsDetector_detect(landmarks) ==
    detector_call("crossed_arms", landmarks, Return(crossed_arms_detect(landmarks)))

NextDet ==
    \E landmarks \in DetFrames :
        \/ LeanDetector_detect(landmarks)
        \/ HandsRaisedDetector_detect(landmarks)
        \/ SquatDetector_detect(landmarks)
        \/ CrossedArmsDetector_detect(landmarks)

SpecDet == InitDet /\ [][NextDet]_vars

\* ----------------------------------------------- the punch detector alone

\* The PunchDetector object
PunchSelf ==
    [prev_landmarks |-> prev_landmarks, velocity_history |-> velocity_history]

\* A fresh PunchDetector and the baseline the calls pass to it.
InitPunch ==
    /\ FreshStateMachine
    /\ ThreadsUnused
    /\ CalibratorUnused
    /\ rec_calibration \in Baselines
    /\ prev_landmarks = NewPunchDetector.prev_landmarks
    /\ velocity_history = NewPunchDetector.velocity_history
    /\ last_frame = <<>>
    /\ obs = NoCalls
    /\ other = <<>>

\* One call of PunchDetector.detect(landmarks, calibration).  obs keeps the
\* detector as the call found it, the frame passed to the call before, the
\* value returned, and the frames and results of the calls so far.
detect(landmarks) ==
    LET r == punch_detect(PunchSelf, landmarks, rec_calibration)
    IN /\ obs.calls < MaxFrames
       /\ prev_landmarks' = r.self.prev_landmarks
       /\ velocity_history' = r.self.velocity_history
       /\ last_frame' = <<landmarks>>
       /\ obs' = [calls |-> obs.calls + 1,
                  frame |-> landmarks,
                  preceding |-> last_frame,
                  before |-> PunchSelf,
                  result |-> r.result,
                  log |-> Append(obs.log, [frame |-> landmarks,
                                           result |-> r.result])]
       /\ UNCHANGED <<rec_calibration, other, fsm_vars, cal_vars, thread_vars>>

NextPunch == \E landmarks \in NextFrames(PunchPoses, last_frame) : detect(landmarks)

SpecPunch == InitPunch /\ [][NextPunch]_vars

\* ------------------------------------- the punch detector on the sequences
\* The time between two frames of the punch sequences: 0.033 s.
frame_interval == 330

\* A frame of tests/mock_data.py with the wrists at left and right.
WristFrame(left, right) ==
    create_mock_landmarks([left_wrist |-> left, right_wrist |-> right])

\* tests/mock_data.py, PUNCH_RIGHT_POSE_SEQUENCE
PUNCH_RIGHT_POSE_SEQUENCE ==
    <<AtTime(WristFrame(Pt(10, 50, 0, 100), Pt(90, 50, 0, 100)), 0),
      AtTime(WristFrame(Pt(10, 50, 0, 100), Pt(95, 50, -10, 100)), frame_interval),
      AtTime(WristFrame(Pt(10, 50, 0, 100), Pt(100, 50, -20, 100)), 2 * frame_interval)>>

\* tests/mock_data.py, PUNCH_LEFT_POSE_SEQUENCE
PUNCH_LEFT_POSE_SEQUENCE ==
    <<AtTime(WristFrame(Pt(10, 50, 0, 100), Pt(90, 50, 0, 100)), 0),
      AtTime(WristFrame(Pt(5, 50, -10, 100), Pt(90, 50, 0, 100)), frame_interval),
      AtTime(WristFrame(Pt(0, 50, -20, 100), Pt(90, 50, 0, 100)), 2 * frame_interval)>>

\* The joint tuples of the frames of the two sequences, and frames in which
\* both wrists move as in the last frames of the sequences, the right one
\* visible (1.0) or hidden (0.3).
SequencePoses ==
    {AtTime(PUNCH_RIGHT_POSE_SEQUENCE[i], 0) : i \in 1..3}
        \cup {AtTime(PUNCH_LEFT_POSE_SEQUENCE[i], 0) : i \in 1..3}
        \cup {WristFrame(Pt(0, 50, -20, 100), Pt(100, 50, -20, v)) : v \in {100, 30}}

\* The frames that can follow: any pose, one frame interval later.
NextSequenceFrames(last) ==
    {AtTime(p, IF last = <<>> THEN 0 ELSE last[1].timestamp + frame_interval) :
        p \in SequencePoses}

NextPunchSequence ==
    \E landmarks \in NextSequenceFrames(last_frame) : detect(landmarks)

SpecPunchSequence == InitPunch /\ [][NextPunchSequence]_vars

\* ---------------------------------------------------------- the recognizer

\* The gap between two readings of time.perf_counter() in recognize, in
\* ticks: 0.05 s and 0.15 s.
WallSteps == {1, 3}

\* The largest number of frames passed to a recognizer.
MaxRecFrames == 3

\* The confidences recognize attaches to its candidates, in hundredths.
block_confidence == 90
jump_confidence == 90
punch_confidence == 85
crouch_confidence == 80
lean_confidence == 75

\* PunchDetector.detect gets past its two early returns and computes the
\* wrist velocities against self.prev_landmarks.
punch_computes(self, landmarks) ==
    /\ self.prev_landmarks # <<>>
    /\ landmarks.timestamp - self.prev_landmarks[1].timestamp >= dt_epsilon

\* recognize up to the state machine: priorities 1 to 3.  The punch detector
\* is called only if neither crossed arms nor hands raised fired.
recognize_upper(punch_self, landmarks, calibration) ==
    IF crossed_arms_detect(landmarks)
    THEN [punch_self |-> punch_self, punch_called |-> FALSE,
          detected_gesture |-> "block", confidence |-> block_confidence]
    ELSE IF hands_raised_detect(landmarks)
    THEN [punch_self |-> punch_self, punch_called |-> FALSE,
          detected_gesture |-> "jump", confidence |-> jump_confidence]
    ELSE LET p == punch_detect(punch_self, landmarks, calibration)
         IN IF p.result = "punch_right"
            THEN [punch_self |-> p.self, punch_called |-> TRUE,
                  detected_gesture |-> "attack_basic",
                  confidence |-> punch_confidence]
            ELSE IF p.result = "punch_left"
            THEN [punch_self |-> p.self, punch_called |-> TRUE,
                  detected_gesture |-> "attack_special",
                  confidence |-> punch_confidence]
            ELSE [punch_self |-> p.self, punch_called |-> TRUE,
                  detected_gesture |-> None, confidence |-> 0]

\* Variant of recognize_lower that gives a lean the confidence 0.7.
recognize_lower_weak_lean(upper, landmarks, calibration) ==
    IF upper.detected_gesture # None
    THEN [exception |-> None, detected_gesture |-> upper.detected_gesture,
          confidence |-> upper.confidence]
    ELSE LET squat == squat_detect(landmarks, calibration)
             lean == lean_detect(landmarks, calibration)
         IN IF squat.exception # None
            THEN [exception |-> squat.exception, detected_gesture |-> None,
                  confidence |-> 0]
            ELSE IF squat.value[1]
            THEN [exception |-> None, detected_gesture |-> "crouch",
                  confidence |-> crouch_confidence]
            ELSE IF lean = "lean_left"
            THEN [exception |-> None, detected_gesture |-> "move_left",
                  confidence |-> confidence_gate]
            ELSE IF lean = "lean_right"
            THEN [exception |-> None, detected_gesture |-> "move_right",
                  confidence |-> confidence_gate]
            ELSE [exception |-> None, detected_gesture |-> None,
                  confidence |-> 0]

\* recognize up to the state machine: priorities 4 and 5, given what the
\* upper priorities left.  The squat detector is called only while there is
\* no candidate, and what it raises leaves recognize.
recognize_lower(upper, landmarks, calibration) ==
    IF upper.detected_gesture # None
    THEN [exception |-> None, detected_gesture |-> upper.detected_gesture,
          confidence |-> upper.confidence]
    ELSE LET squat == squat_detect(landmarks, calibration)
             lean == lean_detect(landmarks, calibration)
         IN IF squat.exception # None
            THEN [exception |-> squat.exception, detected_gesture |-> None,
                  confidence |-> 0]
            ELSE IF squat.value[1]
            THEN [exception |-> None, detected_gesture |-> "crouch",
                  confidence |-> crouch_confidence]
            ELSE IF lean = "lean_left"
            THEN [exception |-> None, detected_gesture |-> "move_left",
                  confidence |-> lean_confidence]
            ELSE IF lean = "lean_right"
            THEN [exception |-> None, detected_gesture |-> "move_right",
                  confidence |-> lean_confidence]
            ELSE [exception |-> None, detected_gesture |-> None,
                  confidence |-> 0]

\* A recognizer constructed with one of the baselines.
InitRec ==
    /\ FreshStateMachine
    /\ ThreadsUnused
    /\ CalibratorUnused
    /\ rec_calibration \in Baselines
    /\ prev_landmarks = NewPunchDetector.prev_landmarks
    /\ velocity_history = NewPunchDetector.velocity_history
    /\ last_frame = <<>>
    /\ obs = NoCalls
    /\ other = <<>>

\* What recognize returns for the value update returned.
recognize_return(gesture_event) ==
    IF gesture_event # <<>> THEN gesture_event[1].gesture_type ELSE None

\* GestureRecognizer.recognize from the state machine update on (lines
\* 333-340), given what the priorities left.  When the squat detector
\* raises, the punch detector has been called already and the state machine
\* is not reached.
recognize_finish(landmarks, current_time, upper, lower) ==
    LET seen == [calls |-> obs.calls + 1,
                 frame |-> landmarks,
                 preceding |-> last_frame,
                 before |-> PunchSelf,
                 punch_called |-> upper.punch_called,
                 exception |-> lower.exception]
    IN /\ obs.calls < MaxRecFrames
       /\ prev_landmarks' = upper.punch_self.prev_landmarks
       /\ velocity_history' = upper.punch_self.velocity_history
       /\ last_frame' = <<landmarks>>
       /\ UNCHANGED <<rec_calibration, cal_vars, thread_vars>>
       /\ IF lower.exception # None
          THEN /\ obs' = seen @@
                         [candidate |-> <<>>, result |-> <<>>]
               /\ UNCHANGED fsm_vars
          ELSE /\ update_vars(lower.detected_gesture, lower.confidence,
                              current_time)
               /\ obs' = seen @@
                         [candidate |-> <<lower.detected_gesture,
                                          lower.confidence>>,
                          result |-> <<recognize_return(ret')>>]

\* GestureRecognizer.recognize from priority 4 on (lines 318-340), given
\* what priorities 1 to 3 left.
recognize_from_squat(landmarks, current_time, upper) ==
    recognize_finish(landmarks, current_time, upper,
                     recognize_lower(upper, landmarks, rec_calibration))

\* One call of GestureRecognizer.recognize(landmarks) in which
\* time.perf_counter() reads current_time.
recognize_vars(landmarks, current_time) ==
    recognize_from_squat(landmarks, current_time,
                         recognize_upper(PunchSelf, landmarks, rec_calibration))

\* A call of recognize on the only recognizer there is.
recognize(landmarks, current_time) ==
    /\ recognize_vars(landmarks, current_time)
    /\ UNCHANGED other

NextRec ==
    \E landmarks \in NextFramesRec(last_frame), d \in WallSteps :
        recognize(landmarks, now + d)

SpecRec == InitRec /\ [][NextRec]_vars

\* ---------------------------------------------------------- two recognizers

\* The poses of the frames given to two recognizers.
TwoPoses == {NEUTRAL_POSE, CROSSED_POSE, PUNCH_RIGHT_POSE}

\* GestureRecognizer.__init__ for the second recognizer: its punch detector,
\* its state machine, its latest reading of time.perf_counter(), and what
\* its latest call of recognize returned or raised.
NewRecognizer ==
    [punch |-> NewPunchDetector,
     machine |-> [state |-> IDLE, current_gesture |-> None,
                  gesture_start_time |-> 0, last_trigger_time |-> <<>>],
     now |-> 0,
     returned |-> <<>>,
     exception |-> None]

\* What the second recognizer o is after a call of recognize whose state
\* machine update returned r at current_time.
other_updated(punch_self, r, current_time) ==
    [punch |-> punch_self,
     machine |-> r.self,
     now |-> current_time,
     returned |-> <<recognize_return(r.result)>>,
     exception |-> None]

\* GestureRecognizer.recognize on the second recognizer o from the state
\* machine update on, given what the priorities left.
other_finish(o, punch_self, lower, current_time) ==
    IF lower.exception # None
    THEN [o EXCEPT !.punch = punch_self,
                   !.returned = <<>>,
                   !.exception = lower.exception]
    ELSE other_updated(punch_self,
                       update_fn(o.machine, lower.detected_gesture,
                                 lower.confidence, current_time),
                       current_time)

\* GestureRecognizer.recognize on the second recognizer o from priority 4
\* on, given what priorities 1 to 3 left.
other_from_squat(o, upper, landmarks, calibration, current_time) ==
    other_finish(o, upper.punch_self,
                 recognize_lower(upper, landmarks, calibration), current_time)

\* GestureRecognizer.recognize on the second recognizer o, constructed with
\* the same baseline, reading current_time from time.perf_counter().
recognize_other(o, landmarks, calibration, current_time) ==
    other_from_squat(o, recognize_upper(o.punch, landmarks, calibration),
                     landmarks, calibration, current_time)

\* Two recognizers constructed with the same baseline.
InitTwo ==
    /\ FreshStateMachine
    /\ ThreadsUnused
    /\ CalibratorUnused
    /\ rec_calibration \in Baselines
    /\ prev_landmarks = NewPunchDetector.prev_landmarks
    /\ velocity_history = NewPunchDetector.velocity_history
    /\ last_frame = <<>>
    /\ obs = NoCalls
    /\ other = NewRecognizer

\* The same frame is passed to both recognizers; each call reads
\* time.perf_counter() at its own instant.
recognize_both(landmarks, current_time, other_time) ==
    /\ recognize_vars(landmarks, current_time)
    /\ other' = recognize_other(other, landmarks, rec_calibration, other_time)

NextTwo ==
    \E landmarks \in NextFrames(TwoPoses, last_frame), d \in WallSteps, e \in WallSteps :
        recognize_both(landmarks, now + d, other.now + e)

SpecTwo == InitTwo /\ [][NextTwo]_vars

\* ----------------------------------------------------------- the calibrator

\* config.TIMING["calibration_duration"] = 3.0 s, in ticks of 0.05 s
calibration_duration == 60

\* The largest number of frames a calibrator collects.
MaxCalFrames == 11

\* The largest reading of time.time(), in ticks.
MaxCalTime == 90

\* The gap between two readings of time.time(), in ticks: none, 1.5 s.
CalSteps == {0, 30}

\* A T-pose held less well: shoulders lower, narrower and 0.02 to the side,
\* hips lower, wrists 0.04 towards the camera.
LOOSE_T_POSE ==
    create_mock_landmarks([left_shoulder |-> Pt(34, 34, 0, 100),
                           right_shoulder |-> Pt(70, 34, 0, 100),
                           left_hip |-> Pt(35, 72, 0, 100),
                           right_hip |-> Pt(65, 72, 0, 100),
                           left_wrist |-> Pt(10, 50, -4, 100),
                           right_wrist |-> Pt(90, 50, -4, 100)])

\* The frames shown to the calibrator.
CalPoses == {NEUTRAL_POSE, LOOSE_T_POSE}

\* _finalize_calibration, loop body: what one frame contributes, as
\* <<angle, shoulder_width, torso_length, hip_height, wrist_z>>.
frame_measures(frame) ==
    LET hip_center_x == (X(frame.left_hip) + X(frame.right_hip)) \div 2
        shoulder_center_x ==
            (X(frame.left_shoulder) + X(frame.right_shoulder)) \div 2
        hip_center_y == (Y(frame.left_hip) + Y(frame.right_hip)) \div 2
        shoulder_center_y ==
            (Y(frame.left_shoulder) + Y(frame.right_shoulder)) \div 2
        dx == shoulder_center_x - hip_center_x
        dy == shoulder_center_y - hip_center_y
    IN <<Atan2Deg(dx, dy),
         calculate_distance(frame.left_shoulder, frame.right_shoulder),
         calculate_distance(<<shoulder_center_x, shoulder_center_y>>,
                            <<hip_center_x, hip_center_y>>),
         hip_center_y,
         (Z(frame.left_wrist) + Z(frame.right_wrist)) \div 2>>

\* Variant of valid_frames that also drops the first frame kept.
valid_frames_late(frames) ==
    LET start_idx == Len(frames) \div 10 + 1
        end_idx == Len(frames) - Len(frames) \div 10
        valid == SubSeq(frames, start_idx + 1, end_idx)
    IN IF Len(valid) = 0 THEN frames ELSE valid

\* _finalize_calibration: frames[start_idx:end_idx], or every frame when
\* that slice is empty
valid_frames(frames) ==
    LET start_idx == Len(frames) \div 10
        end_idx == Len(frames) - start_idx
        valid == SubSeq(frames, start_idx + 1, end_idx)
    IN IF Len(valid) = 0 THEN frames ELSE valid

\* frame_measures of each frame shown to the calibrator.
MeasuresOf == [frame \in CalPoses |-> frame_measures(frame)]

\* sum(values) / len(values) for the k-th measure of the frames
mean_measure(frames, k) ==
    SumSeq([i \in 1..Len(frames) |-> MeasuresOf[frames[i]][k]])
        \div Len(frames)

\* CalibrationSystem._finalize_calibration on the data collected so far
finalize_calibration(data) ==
    LET frames == data.calibration_frames
        valid == valid_frames(frames)
    IN IF Len(frames) = 0 THEN data
       ELSE [neutral_torso_angle |-> mean_measure(valid, 1),
             shoulder_width |-> mean_measure(valid, 2),
             torso_length |-> mean_measure(valid, 3),
             neutral_hip_height |-> mean_measure(valid, 4),
             wrist_neutral_z |-> mean_measure(valid, 5),
             is_calibrated |-> TRUE,
             calibration_frames |-> frames]

\* The five baseline scalars of a CalibrationData.
scalars(data) ==
    <<data.neutral_torso_angle, data.shoulder_width, data.torso_length,
      data.neutral_hip_height, data.wrist_neutral_z>>

\* CalibrationSystem.__init__.  cal_obs keeps what the latest update call
\* returned and whether an update call before it returned complete = True.
InitCal ==
    /\ FreshStateMachine
    /\ ThreadsUnused
    /\ RecognizerUnused
    /\ time_time = 0
    /\ start_time = <<>>
    /\ calibration_data = DefaultCalibrationData
    /\ cal_obs = [updates |-> 0, is_complete |-> FALSE, progress |-> 0,
                  elapsed |-> 0, completed_before |-> FALSE]

\* CalibrationSystem.start_calibration, time.time() reading t.  main.py
\* calls it once per calibrator, while start_time is None.
start_calibration(t) ==
    /\ start_time = <<>>
    /\ t <= MaxCalTime
    /\ time_time' = t
    /\ start_time' = <<t>>
    /\ calibration_data' = [calibration_data EXCEPT !.calibration_frames = <<>>]
    /\ UNCHANGED <<cal_obs, fsm_vars, rec_vars,
                   thread_vars>>

\* Variant of update_not_started that collects the frame.
update_not_started_buffers(landmarks) ==
    /\ start_time = <<>>
    /\ cal_obs' = [cal_obs EXCEPT !.updates = 1, !.is_complete = FALSE,
                                  !.progress = 0]
    /\ calibration_data' = [calibration_data EXCEPT
                              !.calibration_frames = Append(@, landmarks)]
    /\ UNCHANGED <<time_time, start_time, fsm_vars, rec_vars,
                   thread_vars>>

\* CalibrationSystem.update(landmarks) before start_calibration
update_not_started(landmarks) ==
    /\ start_time = <<>>
    /\ cal_obs' = [cal_obs EXCEPT !.updates = 1, !.is_complete = FALSE,
                                  !.progress = 0]
    /\ UNCHANGED <<time_time, start_time, calibration_data, fsm_vars, rec_vars,
                   thread_vars>>

\* CalibrationSystem.update(landmarks) after start_calibration, time.time()
\* reading t.  progress is in hundredths.
update_started(landmarks, t) ==
    LET elapsed == t - start_time[1]
        ratio == (100 * elapsed) \div calibration_duration
        progress == IF ratio < 100 THEN ratio ELSE 100
        collected == [calibration_data EXCEPT
                        !.calibration_frames = Append(@, landmarks)]
        complete == elapsed >= calibration_duration
        data == IF complete THEN finalize_calibration(collected) ELSE collected
    IN /\ start_time # <<>>
       /\ Len(calibration_data.calibration_frames) < MaxCalFrames
       /\ t <= MaxCalTime
       /\ time_time' = t
       /\ calibration_data' = data
       /\ cal_obs' = [updates |-> 1,
                      is_complete |-> complete,
                      progress |-> IF complete THEN 100 ELSE progress,
                      elapsed |-> elapsed,
                      completed_before |->
                          cal_obs.completed_before \/ cal_obs.is_complete]
       /\ UNCHANGED <<start_time, fsm_vars, rec_vars,
                   thread_vars>>

NextCal ==
    \/ \E d \in CalSteps : start_calibration(time_time + d)
    \/ \E p \in CalPoses : update_not_started(p)
    \/ \E p \in CalPoses, d \in CalSteps : update_started(p, time_time + d)

SpecCal == InitCal /\ [][NextCal]_vars

(***************************************************************************)
(* Part 3: the threads (src/capture.py, src/main.py,                       *)
(* src/input_simulator.py) and the two queues they share (src/utils.py).   *)
(* A thread takes one step at a time; a step holds at most one operation   *)
(* on a shared object (a queue, is_running, active_keys, the keyboard),    *)
(* which is the grain at which Python's threads interleave on them.        *)
(***************************************************************************)

\* queue.Queue(maxsize=2) for frames
frame_queue_maxsize == 2

\* queue.Queue(maxsize=10) for input commands
input_queue_maxsize == 10

\* The exceptions of the queue module
Full == "Full"
Empty == "Empty"

\* Queue.put_nowait(item) on a queue holding q: the queue afterwards
put_nowait(q, maxsize, item) ==
    IF Len(q) >= maxsize THEN Raise(Full) ELSE Return(Append(q, item))

\* Queue.get_nowait() on a queue holding q: the item and the queue afterwards
get_nowait(q) ==
    IF q = <<>> THEN Raise(Empty) ELSE Return([item |-> Head(q), queue |-> Tail(q)])

\* ------------------------------------------------------- the frame queue

\* How many frames the capture thread reads from the camera.
MaxCaptured == 6

\* The capture thread is about to read a frame, the main thread is about to
\* take one.  A frame is its frame_id.  capture.full holds, for each frame
\* that found the queue full, the frame, the frame that was dropped for it
\* and whether it was put in the queue.
InitFrameQueue ==
    /\ FreshStateMachine
    /\ RecognizerUnused
    /\ CalibratorUnused
    /\ shared_state = [frame_queue |-> <<>>, input_queue |-> <<>>,
                       is_running |-> TRUE]
    /\ capture = [pc |-> "read", frame_id |-> 0, frame_data |-> <<>>,
                  full |-> <<>>]
    /\ app = [pc |-> "get", frames |-> <<>>]
    /\ input_simulator = <<>>
    /\ keyboard = <<>>

\* capture_loop, lines 59-79: the loop test, cap.read() and FrameData(...)
capture_read ==
    /\ capture.pc = "read"
    /\ shared_state.is_running
    /\ capture.frame_id < MaxCaptured
    /\ capture' = [capture EXCEPT !.pc = "put", !.frame_data = <<capture.frame_id>>]
    /\ UNCHANGED <<shared_state, app, input_simulator, keyboard,
                   fsm_vars, rec_vars, cal_vars>>

\* What the capture thread is after it has dealt with its frame (line 92).
capture_next(self) ==
    [self EXCEPT !.pc = "read", !.frame_id = self.frame_id + 1,
                 !.frame_data = <<>>]

\* What capture.full records for the frame in hand
capture_found_full(self, dropped, queued) ==
    [self EXCEPT !.full = Append(self.full,
                                 [frame |-> self.frame_data[1],
                                  dropped |-> dropped,
                                  queued |-> queued])]

\* capture_loop, lines 82-84: the first put_nowait
capture_put ==
    /\ capture.pc = "put"
    /\ LET r == put_nowait(shared_state.frame_queue, frame_queue_maxsize,
                           capture.frame_data[1])
       IN IF r.exception = None
          THEN /\ shared_state' = [shared_state EXCEPT !.frame_queue = r.value[1]]
               /\ capture' = capture_next(capture)
          ELSE /\ capture' = [capture EXCEPT !.pc = "drop"]
               /\ UNCHANGED shared_state
    /\ UNCHANGED <<app, input_simulator, keyboard, fsm_vars, rec_vars, cal_vars>>

\* capture_loop, lines 86-87 and 89-90: get_nowait; what it raises is
\* swallowed by the bare except and ends the handling of the frame
capture_drop ==
    /\ capture.pc = "drop"
    /\ LET r == get_nowait(shared_state.frame_queue)
       IN IF r.exception = None
          THEN /\ shared_state' =
                     [shared_state EXCEPT !.frame_queue = r.value[1].queue]
               /\ capture' = [capture EXCEPT !.pc = "put_again",
                                             !.frame_data =
                                                 <<capture.frame_data[1],
                                                   r.value[1].item>>]
          ELSE /\ capture' = capture_next(
                                 capture_found_full(capture, <<>>, FALSE))
               /\ UNCHANGED shared_state
    /\ UNCHANGED <<app, input_simulator, keyboard, fsm_vars, rec_vars, cal_vars>>

\* capture_loop, lines 88-90: the second put_nowait; what it raises is
\* swallowed too
capture_put_again ==
    /\ capture.pc = "put_again"
    /\ LET r == put_nowait(shared_state.frame_queue, frame_queue_maxsize,
                           capture.frame_data[1])
       IN IF r.exception = None
          THEN /\ shared_state' = [shared_state EXCEPT !.frame_queue = r.value[1]]
               /\ capture' = capture_next(
                                 capture_found_full(capture,
                                                    <<capture.frame_data[2]>>,
                                                    TRUE))
          ELSE /\ capture' = capture_next(
                                 capture_found_full(capture,
                                                    <<capture.frame_data[2]>>,
                                                    FALSE))
               /\ UNCHANGED shared_state
    /\ UNCHANGED <<app, input_simulator, keyboard, fsm_vars, rec_vars, cal_vars>>

\* CVFighterApp.run, lines 80-85: frame_queue.get(timeout=0.1) returns the
\* oldest frame.  (When it times out the loop starts over and nothing
\* changes.)  The frame is then processed with no effect on the queue.
run_get_frame ==
    /\ app.pc = "get"
    /\ shared_state.is_running
    /\ shared_state.frame_queue # <<>>
    /\ shared_state' = [shared_state EXCEPT !.frame_queue = Tail(@)]
    /\ app' = [app EXCEPT !.frames = Append(@, Head(shared_state.frame_queue))]
    /\ UNCHANGED <<capture, input_simulator, keyboard, fsm_vars, rec_vars,
                   cal_vars>>

NextFrameQueue ==
    \/ capture_read
    \/ capture_put
    \/ capture_drop
    \/ capture_put_again
    \/ run_get_frame

SpecFrameQueue == InitFrameQueue /\ [][NextFrameQueue]_vars

\* ------------------------------------------------------ the input thread

\* InputSimulator.SPECIAL_KEYS: the names of the special keys and the pynput
\* Key each stands for (written "Key.<name>")
SPECIAL_KEYS ==
    [k \in {"Left", "Right", "Up", "Down", "Space", "Enter", "Shift", "Ctrl",
            "Alt", "Tab", "Escape"} |->
        CASE k = "Left" -> "Key.left"
          [] k = "Right" -> "Key.right"
          [] k = "Up" -> "Key.up"
          [] k = "Down" -> "Key.down"
          [] k = "Space" -> "Key.space"
          [] k = "Enter" -> "Key.enter"
          [] k = "Shift" -> "Key.shift"
          [] k = "Ctrl" -> "Key.ctrl"
          [] k = "Alt" -> "Key.alt"
          [] k = "Tab" -> "Key.tab"
          [] k = "Escape" -> "Key.esc"]

\* InputSimulator._get_key(key_str): the pynput key of a key string
_get_key(key_str) ==
    IF key_str \in DOMAIN SPECIAL_KEYS THEN SPECIAL_KEYS[key_str] ELSE key_str

\* GESTURE_KEY_MAPPING.get(gesture)
GESTURE_KEY_MAPPING ==
    [g \in {"move_left", "move_right", "jump", "crouch", "attack_basic",
            "attack_special", "block"} |->
        CASE g = "move_left" -> "a"
          [] g = "move_right" -> "d"
          [] g = "jump" -> "w"
          [] g = "crouch" -> "s"
          [] g = "attack_basic" -> "j"
          [] g = "attack_special" -> "k"
          [] g = "block" -> "l"]

\* InputCommand(key, action, timestamp, gesture_source); the time stamp is
\* read by nobody
InputCommand(key, action, gesture_source) ==
    [key |-> key, action |-> action, gesture_source |-> gesture_source]

\* The keyboard is the sequence of the press and release calls that took
\* effect on it; the keys down are those whose last call is a press.
keyboard_pressed(calls) ==
    {calls[i].key : i \in
        {j \in DOMAIN calls :
            /\ calls[j].call = "press"
            /\ \A l \in DOMAIN calls :
                   l > j => calls[l].key # calls[j].key}}

\* The keys Controller.press and Controller.release accept: a Key or a
\* string of one character; for any other string they raise
keyboard_raises(key) ==
    key \notin {SPECIAL_KEYS[k] : k \in DOMAIN SPECIAL_KEYS}
                   \cup {"a", "d", "w", "s", "j", "k", "l"}

\* Controller.press(key) / Controller.release(key): a call that raises has
\* sent nothing
keyboard_call(calls, call, key) ==
    IF keyboard_raises(key)
    THEN calls
    ELSE Append(calls, [call |-> call, key |-> key])

\* How many commands the main thread sends / frames it processes
MaxCommands == 4

\* The keys and actions of the commands sent
InputKeys == {"a", "Left", "ab"}
InputActions == {"press", "release"}

\* The main thread in its loop, the input thread at its loop test, no key
\* pressed.
InitInput ==
    /\ FreshStateMachine
    /\ RecognizerUnused
    /\ CalibratorUnused
    /\ shared_state = [frame_queue |-> <<>>, input_queue |-> <<>>,
                       is_running |-> TRUE]
    /\ capture = <<>>
    /\ app = [pc |-> "run", processed |-> 0, active_held_keys |-> <<>>,
              pending |-> <<>>, after |-> "run"]
    /\ input_simulator = [pc |-> "loop", command |-> <<>>,
                          active_keys |-> {}]
    /\ keyboard = <<>>

\* CVFighterApp._send_input, lines 283-292, on the input queue q: the queue
\* afterwards (a full queue skips the command)
app_send_input(q, command) ==
    LET r == put_nowait(q, input_queue_maxsize, command)
    IN IF r.exception = None THEN r.value[1] ELSE q

\* The main thread sends one command
send_command(key, action) ==
    /\ app.pc = "run"
    /\ shared_state.is_running
    /\ app.processed < MaxCommands
    /\ shared_state' =
           [shared_state EXCEPT !.input_queue =
               app_send_input(@, InputCommand(key, action, None))]
    /\ app' = [app EXCEPT !.processed = @ + 1]
    /\ UNCHANGED <<capture, input_simulator, keyboard, fsm_vars, rec_vars,
                   cal_vars>>

\* process_loop, line 151: the loop test
process_loop_test ==
    /\ input_simulator.pc = "loop"
    /\ input_simulator' =
           [input_simulator EXCEPT
               !.pc = IF shared_state.is_running THEN "get" ELSE "done"]
    /\ UNCHANGED <<shared_state, capture, app, keyboard, fsm_vars, rec_vars,
                   cal_vars>>

\* process_loop, lines 153 and 155-156: input_queue.get(timeout=0.1) returns
\* the oldest command, or raises queue.Empty and the loop starts over
process_loop_get ==
    /\ input_simulator.pc = "get"
    /\ LET r == get_nowait(shared_state.input_queue)
       IN IF r.exception = None
          THEN /\ shared_state' =
                     [shared_state EXCEPT !.input_queue = r.value[1].queue]
               /\ input_simulator' =
                     [input_simulator EXCEPT !.pc = "send",
                                             !.command = <<r.value[1].item>>]
          ELSE /\ input_simulator' = [input_simulator EXCEPT !.pc = "loop"]
               /\ UNCHANGED shared_state
    /\ UNCHANGED <<capture, app, keyboard, fsm_vars, rec_vars, cal_vars>>

\* A variant of _send_input's tests that sends every command
sends_unchecked(active_keys, command) ==
    command.action \in {"press", "release"}

\* _send_input, lines 194-195 and 198-199: whether the command is sent
sends(active_keys, command) ==
    IF command.action = "press" THEN command.key \notin active_keys
    ELSE IF command.action = "release" THEN command.key \in active_keys
    ELSE FALSE

\* _send_input, lines 184-199: the focus check changes no key; _get_key;
\* the tests on active_keys
_send_input_test ==
    /\ input_simulator.pc = "send"
    /\ input_simulator' =
           IF sends(input_simulator.active_keys, input_simulator.command[1])
           THEN [input_simulator EXCEPT !.pc = "keyboard"]
           ELSE [input_simulator EXCEPT !.pc = "loop", !.command = <<>>]
    /\ UNCHANGED <<shared_state, capture, app, keyboard, fsm_vars, rec_vars,
                   cal_vars>>

\* _send_input, lines 196, 200 and 202-203: keyboard.press(key) or
\* keyboard.release(key); an exception ends the handling of the command
_send_input_keyboard ==
    /\ input_simulator.pc = "keyboard"
    /\ keyboard' = keyboard_call(keyboard, input_simulator.command[1].action,
                                 _get_key(input_simulator.command[1].key))
    /\ input_simulator' =
           IF keyboard_raises(_get_key(input_simulator.command[1].key))
           THEN [input_simulator EXCEPT !.pc = "loop", !.command = <<>>]
           ELSE [input_simulator EXCEPT !.pc = "mark"]
    /\ UNCHANGED <<shared_state, capture, app, fsm_vars, rec_vars, cal_vars>>

\* _send_input, lines 197 and 201: active_keys.add / active_keys.discard
_send_input_mark ==
    /\ input_simulator.pc = "mark"
    /\ input_simulator' =
           [input_simulator EXCEPT
               !.pc = "loop",
               !.command = <<>>,
               !.active_keys =
                   IF input_simulator.command[1].action = "press"
                   THEN @ \cup {input_simulator.command[1].key}
                   ELSE @ \ {input_simulator.command[1].key}]
    /\ UNCHANGED <<shared_state, capture, app, keyboard, fsm_vars, rec_vars,
                   cal_vars>>

NextInput ==
    \/ \E key \in InputKeys, action \in InputActions : send_command(key, action)
    \/ process_loop_test
    \/ process_loop_get
    \/ _send_input_test
    \/ _send_input_keyboard
    \/ _send_input_mark

SpecInput == InitInput /\ [][NextInput]_vars

\* ------------------------------------------------------------ the cleanup

\* How many frames the main thread processes before it cleans up
MaxProcessed == 2

\* What the tests of lines 261 and 164 let through: the hold gesture and the
\* tap gesture of a frame (None: no such gesture in the frame)
HoldInputs == {None, "move_left", "move_right"}
TapInputs == {None, "attack_basic"}

\* The main thread in its loop with no key held, the input thread at its
\* loop test, no key pressed.  active_held_keys is the dict in insertion
\* order; snapshot is the list release_all_keys iterates over.
InitCleanup ==
    /\ FreshStateMachine
    /\ RecognizerUnused
    /\ CalibratorUnused
    /\ shared_state = [frame_queue |-> <<>>, input_queue |-> <<>>,
                       is_running |-> TRUE]
    /\ capture = <<>>
    /\ app = [pc |-> "run", processed |-> 0, active_held_keys |-> <<>>,
              pending |-> <<>>, after |-> "run", snapshot |-> {}]
    /\ input_simulator = [pc |-> "loop", command |-> <<>>,
                          active_keys |-> {}]
    /\ keyboard = <<>>

\* The release commands for the entries of a dict gesture -> key, in order
release_commands(held) ==
    [i \in DOMAIN held |->
        InputCommand(held[i].key, "release", held[i].gesture)]

\* _handle_hold_gestures, lines 264-279, given current_hold: the commands it
\* sends and active_held_keys afterwards
_handle_hold_gestures(held, current_hold) ==
    LET released == SelectSeq(held, LAMBDA h : h.gesture # current_hold)
        kept == SelectSeq(held, LAMBDA h : h.gesture = current_hold)
    IN IF /\ current_hold # None
          /\ kept = <<>>
          /\ current_hold \in DOMAIN GESTURE_KEY_MAPPING
       THEN [commands |->
                 release_commands(released)
                     \o <<InputCommand(GESTURE_KEY_MAPPING[current_hold],
                                       "press", current_hold)>>,
             active_held_keys |->
                 <<[gesture |-> current_hold,
                    key |-> GESTURE_KEY_MAPPING[current_hold]]>>]
       ELSE [commands |-> release_commands(released),
             active_held_keys |-> kept]

\* _process_frame, lines 164-170: the press and the release of a tap gesture
tap_commands(confirmed_gesture) ==
    IF /\ confirmed_gesture # None
       /\ confirmed_gesture \in DOMAIN GESTURE_KEY_MAPPING
    THEN <<InputCommand(GESTURE_KEY_MAPPING[confirmed_gesture], "press",
                        confirmed_gesture),
           InputCommand(GESTURE_KEY_MAPPING[confirmed_gesture], "release",
                        confirmed_gesture)>>
    ELSE <<>>

\* The main thread with commands to send, and where it goes on after them
app_sending(self, commands, after) ==
    [self EXCEPT !.pending = commands,
                 !.after = after,
                 !.pc = IF commands = <<>> THEN after ELSE "put"]

\* _process_frame, lines 158-170, for a frame of a calibrated application:
\* what the main thread is about to send (active_held_keys is the main
\* thread's own)
process_frame(current_hold, confirmed_gesture) ==
    /\ app.pc = "run"
    /\ shared_state.is_running
    /\ app.processed < MaxProcessed
    /\ LET hold == _handle_hold_gestures(app.active_held_keys, current_hold)
       IN app' = app_sending(
                     [app EXCEPT !.processed = @ + 1,
                                 !.active_held_keys = hold.active_held_keys],
                     hold.commands \o tap_commands(confirmed_gesture),
                     "run")
    /\ UNCHANGED <<shared_state, capture, input_simulator, keyboard, fsm_vars,
                   rec_vars, cal_vars>>

\* One call of CVFighterApp._send_input by the main thread
app_put ==
    /\ app.pc = "put"
    /\ shared_state' =
           [shared_state EXCEPT !.input_queue =
               app_send_input(@, Head(app.pending))]
    /\ app' = app_sending(app, Tail(app.pending), app.after)
    /\ UNCHANGED <<capture, input_simulator, keyboard, fsm_vars, rec_vars,
                   cal_vars>>

\* cleanup, lines 299-304: is_running.clear(); the release commands for the
\* held gesture keys are about to be sent; active_held_keys.clear()
cleanup_clear ==
    /\ app.pc = "run"
    /\ shared_state' = [shared_state EXCEPT !.is_running = FALSE]
    /\ app' = app_sending([app EXCEPT !.active_held_keys = <<>>],
                          release_commands(app.active_held_keys),
                          "release_all_keys")
    /\ UNCHANGED <<capture, input_simulator, keyboard, fsm_vars, rec_vars,
                   cal_vars>>

\* release_all_keys, line 221: list(self.active_keys)
release_all_keys_list ==
    /\ app.pc = "release_all_keys"
    /\ app' = [app EXCEPT !.pc = "release",
                          !.snapshot = input_simulator.active_keys]
    /\ UNCHANGED <<shared_state, capture, input_simulator, keyboard, fsm_vars,
                   rec_vars, cal_vars>>

\* release_all_keys, lines 222-226: keyboard.release of one key of the list;
\* what it raises is swallowed
release_all_keys_release(key_str) ==
    /\ app.pc = "release"
    /\ key_str \in app.snapshot
    /\ keyboard' = keyboard_call(keyboard, "release", _get_key(key_str))
    /\ app' = [app EXCEPT !.snapshot = @ \ {key_str}]
    /\ UNCHANGED <<shared_state, capture, input_simulator, fsm_vars, rec_vars,
                   cal_vars>>

\* release_all_keys, line 227: active_keys.clear()
release_all_keys_clear ==
    /\ app.pc = "release"
    /\ app.snapshot = {}
    /\ input_simulator' = [input_simulator EXCEPT !.active_keys = {}]
    /\ app' = [app EXCEPT !.pc = "join"]
    /\ UNCHANGED <<shared_state, capture, keyboard, fsm_vars, rec_vars,
                   cal_vars>>

\* cleanup, lines 310-322: the input thread, which leaves its loop at its
\* next loop test, has ended when join returns; nothing after the joins
\* touches a key
cleanup_join ==
    /\ app.pc = "join"
    /\ input_simulator.pc = "done"
    /\ app' = [app EXCEPT !.pc = "returned"]
    /\ UNCHANGED <<shared_state, capture, input_simulator, keyboard, fsm_vars,
                   rec_vars, cal_vars>>

NextCleanup ==
    \/ \E current_hold \in HoldInputs, confirmed_gesture \in TapInputs :
           process_frame(current_hold, confirmed_gesture)
    \/ app_put
    \/ cleanup_clear
    \/ release_all_keys_list
    \/ \E key_str \in {GESTURE_KEY_MAPPING[g] : g \in DOMAIN GESTURE_KEY_MAPPING} :
           release_all_keys_release(key_str)
    \/ release_all_keys_clear
    \/ cleanup_join
    \/ process_loop_test
    \/ process_loop_get
    \/ _send_input_test
    \/ _send_input_keyboard
    \/ _send_input_mark

SpecCleanup == InitCleanup /\ [][NextCleanup]_vars

\* ------------------------------------------------------------------ claims

\* The gesture the machine held when the latest call began.
PrevGesture == prev.current_gesture

\* C1 (quiet period).  Of any two events returned for the same gesture G, the
\* later one is returned by a call whose current_time is more than
\* cooldown_duration after the earlier one's: no call at a time
\* <= t + cooldown_duration returns an event for G after an event for G at t.
C1_QuietPeriod ==
    \A i \in DOMAIN events : \A j \in DOMAIN events :
        (i < j /\ events[i].gesture_type = events[j].gesture_type)
            => events[j].timestamp > events[i].timestamp + cooldown_duration

\* C1 witness: the same gesture has been confirmed twice.
C1_Witness ==
    /\ Len(events) >= 2
    /\ events[1].gesture_type = events[2].gesture_type

\* C2 (single-frame jitter is rejected).  When the latest call returned an
\* event for G, its own candidate was G and the unbroken run of calls with
\* candidate G that it ends began at a call more than confirmation_threshold
\* earlier; so the run has at least two calls, and a candidate seen on one
\* call only produces no event.
C2_JitterRejected ==
    ret # <<>> =>
        /\ arg_gesture = ret[1].gesture_type
        /\ now - streak_start > confirmation_threshold

\* C2 witness: an event returned at the earliest tick the run allows.
C2_Witness ==
    /\ ret # <<>>
    /\ now - streak_start = confirmation_threshold + 1

\* C3 (event iff Starting -> Confirmed).  A call returns at most one event, and
\* it returns one exactly when it moved the machine from GESTURE_STARTING to
\* GESTURE_CONFIRMED.
C3_EventIffConfirm ==
    /\ Len(ret) <= 1
    /\ (ret # <<>>) <=> /\ ncalls > 0
                        /\ prev.state = GESTURE_STARTING
                        /\ state = GESTURE_CONFIRMED

\* C3 witness: the confirming call has just returned its one event.
C3_Witness ==
    /\ prev.state = GESTURE_STARTING
    /\ state = GESTURE_CONFIRMED
    /\ Len(ret) = 1

\* C4 (Idle -> Starting).  A call made in IDLE with a candidate other than None
\* and confidence > 0.7 leaves the machine in GESTURE_STARTING with
\* current_gesture the candidate and gesture_start_time the call's
\* current_time, and returns no event.
C4_IdleToStarting ==
    (/\ ncalls > 0
     /\ prev.state = IDLE
     /\ arg_gesture # None
     /\ arg_confidence > confidence_gate)
        => /\ state = GESTURE_STARTING
           /\ current_gesture = arg_gesture
           /\ gesture_start_time = now
           /\ ret = <<>>

\* C4 witness: Starting entered from IDLE at a time other than the initial
\* value of gesture_start_time.
C4_Witness ==
    /\ ncalls > 0
    /\ prev.state = IDLE
    /\ arg_gesture # None
    /\ arg_confidence > confidence_gate
    /\ state = GESTURE_STARTING
    /\ now > prev.gesture_start_time

\* C5 (Starting -> Confirmed).  A call made in GESTURE_STARTING whose candidate
\* equals current_gesture confirms and returns an event exactly when
\* current_time - gesture_start_time > confirmation_threshold; otherwise the
\* state stays GESTURE_STARTING, gesture_start_time is unchanged and no event
\* is returned.
C5_StartingConfirm ==
    (/\ ncalls > 0
     /\ prev.state = GESTURE_STARTING
     /\ arg_gesture = PrevGesture)
        => IF now - prev.gesture_start_time > confirmation_threshold
           THEN /\ state = GESTURE_CONFIRMED
                /\ Len(ret) = 1
           ELSE /\ state = GESTURE_STARTING
                /\ current_gesture = PrevGesture
                /\ gesture_start_time = prev.gesture_start_time
                /\ ret = <<>>

\* C5 witness: the boundary, the candidate held for exactly the confirmation
\* duration, where the machine stays in GESTURE_STARTING.
C5_Witness ==
    /\ ncalls > 0
    /\ prev.state = GESTURE_STARTING
    /\ arg_gesture = PrevGesture
    /\ now - prev.gesture_start_time = confirmation_threshold
    /\ state = GESTURE_STARTING

\* C6 (Starting -> Idle).  A call made in GESTURE_STARTING whose candidate
\* differs from current_gesture (None or another gesture) leaves the machine
\* in IDLE with current_gesture None and returns no event; the other gesture
\* is not adopted.
C6_StartingLost ==
    (/\ ncalls > 0
     /\ prev.state = GESTURE_STARTING
     /\ arg_gesture # PrevGesture)
        => /\ state = IDLE
           /\ current_gesture = None
           /\ ret = <<>>

\* C6 witness: another gesture H, above the confidence gate, arrived in
\* GESTURE_STARTING and was not adopted.
C6_Witness ==
    /\ ncalls > 0
    /\ prev.state = GESTURE_STARTING
    /\ arg_gesture \in Gestures \ {PrevGesture}
    /\ arg_confidence > confidence_gate
    /\ state = IDLE

\* C7 (one-call dwell in Confirmed).  The machine is in GESTURE_CONFIRMED only
\* right after the confirming call, and the call made in GESTURE_CONFIRMED,
\* whatever its arguments, leaves it in COOLDOWN with
\* last_trigger_time[current_gesture] = current_time, current_gesture kept,
\* and returns no event.
C7_ConfirmedDwell ==
    /\ state = GESTURE_CONFIRMED =>
          (ncalls > 0 /\ prev.state = GESTURE_STARTING)
    /\ (ncalls > 0 /\ prev.state = GESTURE_CONFIRMED) =>
          /\ state = COOLDOWN
          /\ current_gesture = PrevGesture
          /\ current_gesture \in DOMAIN last_trigger_time
          /\ last_trigger_time[current_gesture] = now
          /\ ret = <<>>

\* C7 witness: the call made in GESTURE_CONFIRMED carried a different gesture
\* above the gate, later than the confirming call.
C7_Witness ==
    /\ ncalls > 0
    /\ prev.state = GESTURE_CONFIRMED
    /\ arg_gesture \in Gestures \ {PrevGesture}
    /\ arg_confidence > confidence_gate
    /\ Len(events) >= 1
    /\ now > events[Len(events)].timestamp
    /\ state = COOLDOWN

\* C8 (Cooldown -> Idle).  A call made in COOLDOWN for G leaves the machine in
\* IDLE with current_gesture None exactly when
\* current_time - last_trigger_time[G] > cooldown_duration; otherwise it stays
\* in COOLDOWN with current_gesture G whatever the candidate is.
C8_CooldownRule ==
    (ncalls > 0 /\ prev.state = COOLDOWN)
        => /\ PrevGesture \in DOMAIN prev.last_trigger_time
           /\ IF now - prev.last_trigger_time[PrevGesture] > cooldown_duration
              THEN /\ state = IDLE
                   /\ current_gesture = None
              ELSE /\ state = COOLDOWN
                   /\ current_gesture = PrevGesture
                   /\ gesture_start_time = prev.gesture_start_time
           /\ last_trigger_time = prev.last_trigger_time

\* C8 witness: the boundary, a call exactly cooldown_duration after the
\* trigger, carrying another gesture H above the gate; the machine stays in
\* COOLDOWN for G.
C8_Witness ==
    /\ ncalls > 0
    /\ prev.state = COOLDOWN
    /\ state = COOLDOWN
    /\ arg_gesture \in Gestures \ {current_gesture}
    /\ arg_confidence > confidence_gate
    /\ current_gesture \in DOMAIN last_trigger_time
    /\ now - last_trigger_time[current_gesture] = cooldown_duration

\* The run of test_cooldown_prevents_repeat up to its first assertion: exactly
\* two calls, (G, 0.8, t = 0.0) and (G, 0.8, t = 0.15 = 3 ticks).  The machine
\* was in GESTURE_STARTING when the second call began, so the first call was
\* the IDLE -> GESTURE_STARTING call, made at gesture_start_time.
C9_TwoCalls ==
    /\ ncalls = 2
    /\ prev.state = GESTURE_STARTING
    /\ prev.gesture_start_time = 0
    /\ arg_gesture = PrevGesture
    /\ arg_confidence = 80
    /\ now = 3

C10_ThreeCalls ==
    /\ ncalls = 3
    /\ prev.state = GESTURE_CONFIRMED
    /\ prev.gesture_start_time = 0
    /\ Len(events) = 1
    /\ events[1].timestamp = 3
    /\ events[1].confidence = 80
    /\ arg_gesture = None
    /\ arg_confidence = 0
    /\ now = 10

\* The same run with one more call between the confirming call and the call
\* at t = 0.50: four calls, the third made in GESTURE_CONFIRMED at a time
\* 0.15 <= t1 < 0.30, the fourth (None, 0.0, t = 0.50) made in COOLDOWN.
C10_FourCalls ==
    /\ ncalls = 4
    /\ prev.state = COOLDOWN
    /\ prev.gesture_start_time = 0
    /\ Len(events) = 1
    /\ events[1].timestamp = 3
    /\ events[1].confidence = 80
    /\ PrevGesture \in DOMAIN prev.last_trigger_time
    /\ prev.last_trigger_time[PrevGesture] < 10 - cooldown_duration
    /\ arg_gesture = None
    /\ arg_confidence = 0
    /\ now = 10

C11_ConfidenceGating ==
    /\ state = IDLE
    /\ current_gesture = None
    /\ ret = <<>>
    /\ events = <<>>

\* C11 witness: a gesture offered repeatedly with confidence exactly 0.7 has
\* left the machine in IDLE.
C11_Witness ==
    /\ ncalls >= 2
    /\ arg_gesture \in Gestures
    /\ arg_confidence = confidence_gate
    /\ streak_start < now
    /\ state = IDLE

\* C12: with a baseline whose torso_length is zero, SquatDetector.detect
\* reports no detection on every frame instead of raising, and recognize
\* completes normally on every frame without the crouch candidate.
C12_ZeroTorsoNoError ==
    (obs.calls > 0 /\ rec_calibration.torso_length = 0) =>
        /\ squat_detect(obs.frame, rec_calibration) = Return(FALSE)
        /\ obs.exception = None
        /\ obs.candidate[1] # "crouch"

\* The latest detect call found a stored frame less than 0.001 s older than
\* the frame it was given.
SmallDelta ==
    /\ obs.calls > 0
    /\ obs.before.prev_landmarks # <<>>
    /\ obs.frame.timestamp - obs.before.prev_landmarks[1].timestamp < dt_epsilon

\* C13: a call of PunchDetector.detect with a frame whose timestamp is less
\* than 0.001 s after the stored previous frame's returns no detection and
\* leaves both hands' velocity histories as they were.
C13_SmallDeltaSkipped ==
    SmallDelta =>
        /\ obs.result = None
        /\ velocity_history = obs.before.velocity_history

\* A frame half a millisecond after the stored one, with the right wrist
\* moved forward and outward, reaches a detector whose histories hold a
\* sample already.
C13_Witness ==
    /\ SmallDelta
    /\ obs.frame.timestamp - obs.before.prev_landmarks[1].timestamp = 5
    /\ obs.before.velocity_history.right # <<>>
    /\ obs.frame.right_wrist # obs.before.prev_landmarks[1].right_wrist
    /\ Z(obs.frame.right_wrist) < -punch_depth

\* C14: every call of PunchDetector.detect stores the frame it was given as
\* the previous frame before it returns, a call skipped for its small time
\* delta included.
C14_AlwaysBuffered == obs.calls > 0 => prev_landmarks = <<obs.frame>>

\* The detectors in the order of the claim, each with whether it fires on
\* the frame of the latest recognize call (the punch detector as that call
\* found it), its gesture and its confidence in hundredths.
PriorityTable ==
    LET f == obs.frame
        p == punch_detect(obs.before, f, rec_calibration).result
        s == squat_detect(f, rec_calibration)
        l == lean_detect(f, rec_calibration)
    IN << <<crossed_arms_detect(f), "block", 90>>,
          <<hands_raised_detect(f), "jump", 90>>,
          <<p = "punch_right", "attack_basic", 85>>,
          <<p = "punch_left", "attack_special", 85>>,
          <<s.exception = None /\ s.value[1], "crouch", 80>>,
          <<l = "lean_left", "move_left", 75>>,
          <<l = "lean_right", "move_right", 75>> >>

\* The candidate of the first detector of the table that fires; none with
\* confidence 0 when none fires.
FirstFiring ==
    LET firing == {i \in DOMAIN PriorityTable : PriorityTable[i][1]}
    IN IF firing = {} THEN <<None, 0>>
       ELSE LET i == CHOOSE j \in firing : \A k \in firing : j <= k
            IN <<PriorityTable[i][2], PriorityTable[i][3]>>

\* C15: every recognize call yields the candidate of the first detector
\* that fires in the order block, jump, attack_basic, attack_special,
\* crouch, move_left / move_right, and none with confidence 0.0 exactly
\* when no detector fires.
C15_FirstFiringWins ==
    obs.calls > 0 => obs.candidate = FirstFiring

\* The same for the calls that return.
C15_WhenReturning ==
    (obs.calls > 0 /\ obs.exception = None) => obs.candidate = FirstFiring

\* C16: whenever the punch detector computes a wrist velocity during a
\* recognize call, the frame it compares against is the frame passed to
\* recognize immediately before, also when crossed arms or hands raised
\* fired on that frame.
C16_ComparesWithPreceding ==
    (obs.calls > 0 /\ obs.punch_called /\ punch_computes(obs.before, obs.frame))
        => obs.before.prev_landmarks = obs.preceding

\* C17: two recognizers constructed with equal baselines and given the same
\* frames return the same results from recognize, call by call, whatever
\* the instants at which the calls are made.
C17_SameResults ==
    obs.calls > 0 =>
        /\ other.returned = obs.result
        /\ other.exception = obs.exception

\* C18: within a calibration session, complete = True is returned by the
\* first update call whose elapsed time has reached the duration and by no
\* update call after it.
C18_CompleteOnce ==
    cal_obs.is_complete =>
        /\ cal_obs.elapsed >= calibration_duration
        /\ ~cal_obs.completed_before

\* C19: once the session has finalized (is_calibrated), further update calls
\* leave the five baseline scalars as they are.
C19_ScalarsImmutable ==
    [][calibration_data.is_calibrated =>
          scalars(calibration_data') = scalars(calibration_data)]_vars

RECURSIVE SumRange(_, _, _)
\* fn[lo] + ... + fn[hi]
SumRange(fn, lo, hi) == IF lo > hi THEN 0 ELSE fn[lo] + SumRange(fn, lo + 1, hi)

\* The arrival positions, counted from 0, that a finalization over n frames
\* retains according to the claim.
Retained(n) == {i \in 0..(n - 1) : n \div 10 <= i /\ i <= n - n \div 10 - 1}

\* C20: a finalization over the n frames collected averages exactly the
\* frames at arrival positions floor(n/10) .. n - floor(n/10) - 1, and for
\* every n >= 1 that range holds at least one frame.
C20_MiddleFramesAveraged ==
    cal_obs.is_complete =>
        LET frames == calibration_data.calibration_frames
            n == Len(frames)
            lo == n \div 10
            hi == n - n \div 10 - 1
        IN /\ n >= 1
           /\ Retained(n) # {}
           /\ \A k \in 1..5 :
                 scalars(calibration_data)[k] =
                     SumRange([i \in 0..(n - 1) |-> frame_measures(frames[i + 1])[k]],
                              lo, hi) \div Cardinality(Retained(n))

\* A finalization over at least ten frames whose first frame differs from
\* the second: the trimmed average is not the average of all frames.
C20_Witness ==
    /\ cal_obs.is_complete
    /\ Len(calibration_data.calibration_frames) >= 10
    /\ calibration_data.calibration_frames[1] # calibration_data.calibration_frames[2]
    /\ calibration_data.neutral_hip_height #
          mean_measure(calibration_data.calibration_frames, 4)

Called(name) == obs.calls = 1 /\ obs.detector = name

\* 2 * the x of the shoulder centre and of the hip centre, 2 * the y of
\* both, without rounding.
ShoulderX2(frame) == X(frame.left_shoulder) + X(frame.right_shoulder)
HipX2(frame) == X(frame.left_hip) + X(frame.right_hip)
ShoulderY2(frame) == Y(frame.left_shoulder) + Y(frame.right_shoulder)
HipY2(frame) == Y(frame.left_hip) + Y(frame.right_hip)

\* C22: with baseline neutral angle 0, LeanDetector.detect returns no
\* detection for every frame whose shoulder-centre x equals its hip-centre
\* x, the upright neutral pose (shoulders above the hips) included.
C22_SymmetricNoLean ==
    (/\ Called("lean")
     /\ rec_calibration.neutral_torso_angle = 0
     /\ ShoulderX2(obs.frame) = HipX2(obs.frame))
        => obs.outcome = Return(None)

\* The shoulders and hips of frame are those of NEUTRAL_POSE moved by k in x.
ShiftedBy(frame, k) ==
    \A j \in {"left_shoulder", "right_shoulder", "left_hip", "right_hip"} :
        frame[j] = [NEUTRAL_POSE[j] EXCEPT ![1] = @ + k]

\* C23: with baseline neutral angle 0 and torso_length 0.4, a frame whose
\* shoulders and hips are shifted left of the neutral pose by 0.05 is
\* classified lean_left and one shifted right by 0.05 lean_right.
C23_ShiftedLean ==
    (/\ Called("lean")
     /\ rec_calibration.neutral_torso_angle = 0
     /\ rec_calibration.torso_length = 4000)
        => /\ ShiftedBy(obs.frame, -500) => obs.outcome = Return("lean_left")
           /\ ShiftedBy(obs.frame, 500) => obs.outcome = Return("lean_right")

\* wrist y <= shoulder y - 0.2 * |shoulder y - hip y| on the reals, both
\* sides times 200.
RaisedAtLeast(frame, wrist) ==
    200 * Y(wrist) <= 100 * ShoulderY2(frame)
                          - hands_raised_ratio * Abs(ShoulderY2(frame) - HipY2(frame))

\* C24: HandsRaisedDetector.detect returns true if and only if both wrists
\* are above the shoulder line by at least 0.2 x the frame's torso length
\* (boundary included) and both wrist visibilities are > 0.5.
C24_HandsRaisedIff ==
    Called("hands_raised")
        => (obs.outcome = Return(TRUE)
               <=> /\ RaisedAtLeast(obs.frame, obs.frame.left_wrist)
                   /\ RaisedAtLeast(obs.frame, obs.frame.right_wrist)
                   /\ Vis(obs.frame.left_wrist) > min_visibility
                   /\ Vis(obs.frame.right_wrist) > min_visibility)

\* (hip-centre y - neutral_hip_height) / torso_length > 0.25 on the reals,
\* both sides times 200 * |torso_length|.
DropExceedsRatio(frame, calibration) ==
    100 * (HipY2(frame) - 2 * calibration.neutral_hip_height)
        * Sign(calibration.torso_length)
      > 2 * squat_drop_ratio * Abs(calibration.torso_length)

\* C25: with a non-zero baseline torso length SquatDetector.detect returns
\* true exactly when the normalized drop is strictly greater than 0.25; at
\* the boundary (baseline hip 0.7, torso 0.4, frame hip-centre y 0.8,
\* normalized drop 0.25) and below it returns false.
C25_SquatStrictlyAbove ==
    (Called("squat") /\ rec_calibration.torso_length # 0)
        => (obs.outcome = Return(TRUE)
               <=> DropExceedsRatio(obs.frame, rec_calibration))

\* C26: with baseline neutral_hip_height 0.7 and torso_length 0.4, a frame
\* whose hips are at y = 0.8 (SQUAT_POSE) is detected as a squat and one
\* whose hips are at y = 0.7 (NEUTRAL_POSE) is not.
C26_SquatPoseDetected ==
    (/\ Called("squat")
     /\ rec_calibration.neutral_hip_height = 7000
     /\ rec_calibration.torso_length = 4000)
        => /\ (Y(obs.frame.left_hip) = 8000 /\ Y(obs.frame.right_hip) = 8000)
                  => obs.outcome = Return(TRUE)
           /\ (Y(obs.frame.left_hip) = 7000 /\ Y(obs.frame.right_hip) = 7000)
                  => obs.outcome = Return(FALSE)

\* The squat test has run on SQUAT_POSE and returned true.
C26_Witness ==
    /\ Called("squat")
    /\ rec_calibration = TestBaseline
    /\ obs.frame = SQUAT_POSE
    /\ obs.outcome = Return(TRUE)

\* The wrists of frame lie exactly the offset threshold across the body
\* centre, vertically strictly between shoulder line and hip line, fully
\* visible.
CrossedAtOffset(frame) ==
    /\ 2 * X(frame.left_wrist) = ShoulderX2(frame) + 2 * crossed_arms_offset
    /\ 2 * X(frame.right_wrist) = ShoulderX2(frame) - 2 * crossed_arms_offset
    /\ \A w \in {frame.left_wrist, frame.right_wrist} :
          /\ ShoulderY2(frame) < 2 * Y(w)
          /\ 2 * Y(w) < HipY2(frame)
          /\ Vis(w) = 10000

\* C27: a frame whose left wrist lies 0.1 to the right of the body-centre x
\* and whose right wrist lies 0.1 to the left of it (CROSSED_ARMS_POSE),
\* both wrists between shoulder line and hip line and fully visible, is
\* detected as crossed arms; the neutral pose is not.
C27_CrossedArmsPoseDetected ==
    Called("crossed_arms")
        => /\ CrossedAtOffset(obs.frame) => obs.outcome = Return(TRUE)
           /\ obs.frame = NEUTRAL_POSE => obs.outcome = Return(FALSE)

\* C28: the first call to PunchDetector.detect on a fresh detector returns
\* no detection for any frame, stores that frame as the previous frame and
\* adds no velocity sample.
C28_FirstCallStores ==
    obs.calls = 1
        => /\ obs.result = None
           /\ prev_landmarks = <<obs.frame>>
           /\ velocity_history = NewPunchDetector.velocity_history

\* The first call was made with the last frame of the right-punch sequence
\* (wrist out and forward), returned no detection and stored the frame.
C28_Witness ==
    /\ obs.calls = 1
    /\ obs.frame = AtTime(PUNCH_RIGHT_POSE_SEQUENCE[3], 0)
    /\ obs.result = None
    /\ prev_landmarks = <<obs.frame>>
    /\ velocity_history.right = <<>>

\* The frames passed to the calls so far and the values they returned.
LogFrames == [i \in 1..Len(obs.log) |-> obs.log[i].frame]
LogResults == [i \in 1..Len(obs.log) |-> obs.log[i].result]

\* C29: on a fresh PunchDetector with baseline wrist depth 0,
\* PUNCH_RIGHT_POSE_SEQUENCE yields punch_right on the second or the third
\* call and PUNCH_LEFT_POSE_SEQUENCE yields punch_left on the second or the
\* third call.
C29_SequencesDetected ==
    (obs.calls = 3 /\ rec_calibration.wrist_neutral_z = 0)
        => /\ LogFrames = PUNCH_RIGHT_POSE_SEQUENCE
                  => "punch_right" \in {LogResults[2], LogResults[3]}
           /\ LogFrames = PUNCH_LEFT_POSE_SEQUENCE
                  => "punch_left" \in {LogResults[2], LogResults[3]}

\* The right-punch sequence has been passed to a fresh detector: nothing on
\* the first two calls, punch_right on the third.
C29_Witness ==
    /\ obs.calls = 3
    /\ rec_calibration = TestBaseline
    /\ LogFrames = PUNCH_RIGHT_POSE_SEQUENCE
    /\ LogResults = <<None, None, "punch_right">>

\* A hand qualifies on the call just made: the mean of its velocity samples
\* is > 1.5, its wrist is more than 0.15 in front of the baseline depth and
\* visible.
Qualifies(history, wrist) ==
    /\ history # <<>>
    /\ SumSeq(history) > punch_velocity * Len(history)
    /\ Z(wrist) - rec_calibration.wrist_neutral_z < -punch_depth
    /\ Vis(wrist) > min_visibility

\* The call just made got past the two early returns of detect.
Classified ==
    /\ obs.calls >= 1
    /\ obs.before.prev_landmarks # <<>>
    /\ obs.frame.timestamp - obs.before.prev_landmarks[1].timestamp >= dt_epsilon

RightQualifies == Qualifies(velocity_history.right, obs.frame.right_wrist)
LeftQualifies == Qualifies(velocity_history.left, obs.frame.left_wrist)

\* C30: PunchDetector.detect reports punch_right whenever the right hand
\* qualifies, also when the left hand qualifies on the same call; punch_left
\* is reported only when the left hand qualifies and the right does not.
C30_RightBeforeLeft ==
    Classified
        => /\ RightQualifies => obs.result = "punch_right"
           /\ obs.result = "punch_left" => (LeftQualifies /\ ~RightQualifies)

\* Both hands qualified on one call and the call reported punch_right.
C30_Witness ==
    /\ Classified
    /\ RightQualifies
    /\ LeftQualifies
    /\ obs.result = "punch_right"

\* C31: the event returned by the confirming call carries the gesture the
\* machine has held since GESTURE_STARTING was entered, the confidence and
\* the current_time passed on the confirming call, and the state
\* GESTURE_CONFIRMED.
C31_EventFields ==
    ret # <<>> =>
        /\ ret[1].gesture_type = PrevGesture
        /\ ret[1].gesture_type = current_gesture
        /\ ret[1].confidence = arg_confidence
        /\ ret[1].timestamp = now
        /\ ret[1].state = GESTURE_CONFIRMED

\* A confirming call whose confidence differs from the one that entered
\* GESTURE_STARTING and whose time differs from gesture_start_time.
C31_Witness ==
    /\ ret # <<>>
    /\ ret[1].gesture_type = "jump"
    /\ ret[1].confidence = confidence_gate
    /\ ret[1].timestamp = gesture_start_time + confirmation_threshold + 1

\* C32: in every reachable state of the state machine current_gesture is
\* None exactly when the state is IDLE; and whenever the state is COOLDOWN,
\* last_trigger_time holds an entry for current_gesture, written with the
\* current_time of the call that left GESTURE_CONFIRMED and untouched
\* since, so the lookup made in COOLDOWN never falls back on its default.
C32_GestureAndTrigger ==
    /\ current_gesture = None <=> state = IDLE
    /\ state = COOLDOWN =>
          /\ current_gesture \in DOMAIN last_trigger_time
          /\ prev.state = GESTURE_CONFIRMED =>
                last_trigger_time[current_gesture] = now
          /\ prev.state = COOLDOWN =>
                last_trigger_time = prev.last_trigger_time
    /\ (ncalls > 0 /\ prev.state = COOLDOWN) =>
          PrevGesture \in DOMAIN prev.last_trigger_time

\* The machine dwells in COOLDOWN for the second gesture it confirmed, at a
\* call later than the one that recorded the trigger time.
C32_Witness ==
    /\ state = COOLDOWN
    /\ prev.state = COOLDOWN
    /\ DOMAIN last_trigger_time = Gestures
    /\ now > last_trigger_time[current_gesture]

\* C33: when current_time strictly increases from call to call, any two
\* consecutive events, of the same gesture or not, are returned at least 4
\* calls apart, and their timestamps differ by more than cooldown_duration
\* + confirmation_threshold.
C33_EventsApart ==
    \A i \in 1..(Len(events) - 1) :
        /\ obs.event_calls[i + 1] - obs.event_calls[i] >= 4
        /\ events[i + 1].timestamp - events[i].timestamp
               > cooldown_duration + confirmation_threshold

\* Two events of different gestures exactly 4 calls apart.
C33_Witness ==
    /\ Len(events) = 2
    /\ events[1].gesture_type # events[2].gesture_type
    /\ obs.event_calls[2] - obs.event_calls[1] = 4

\* C34: when update is called forever with strictly increasing times, the
\* machine does not stay forever in GESTURE_STARTING, in GESTURE_CONFIRMED
\* or in COOLDOWN; and if from some call on every call carries the same
\* gesture with a confidence above 0.7, events for that gesture are
\* returned again and again.
C34_Liveness ==
    /\ []<>(state # GESTURE_STARTING)
    /\ []<>(state # GESTURE_CONFIRMED)
    /\ []<>(state # COOLDOWN)
    /\ \A g \in Gestures :
          <>[](arg_gesture = g /\ arg_confidence > confidence_gate)
              => []<>(ret # <<>> /\ ret[1].gesture_type = g)

\* An event for a gesture that has been confirmed before is returned by a
\* call that carried that gesture, as did the call before it.
C34_Witness ==
    /\ ret # <<>>
    /\ ret[1].gesture_type \in DOMAIN last_trigger_time
    /\ arg_gesture = ret[1].gesture_type
    /\ ncalls = CallCountCap

\* C35: every candidate other than None that recognize passes to the state
\* machine carries one of the confidences 0.9, 0.85, 0.8, 0.75, all above
\* the gate, and a None candidate carries 0.0; so a candidate other than
\* None that reaches the machine in IDLE always moves it to
\* GESTURE_STARTING.
C35_CandidateConfidence ==
    (obs.calls > 0 /\ obs.candidate # <<>>) =>
        /\ obs.candidate[1] # None =>
              /\ obs.candidate[2] \in {block_confidence, jump_confidence,
                                       punch_confidence, crouch_confidence,
                                       lean_confidence}
              /\ obs.candidate[2] > confidence_gate
        /\ obs.candidate[1] = None => obs.candidate[2] = 0
        /\ (obs.candidate[1] # None /\ prev.state = IDLE) =>
              /\ state = GESTURE_STARTING
              /\ current_gesture = obs.candidate[1]

\* A lean, the candidate with the lowest confidence, reached the machine in
\* IDLE on a call later than the first.
C35_Witness ==
    /\ obs.calls > 1
    /\ obs.candidate # <<>>
    /\ obs.candidate[2] = lean_confidence
    /\ prev.state = IDLE
    /\ state = GESTURE_STARTING

\* C36: in GESTURE_STARTING the confidence plays no part in confirming.  A
\* call whose confidence is at most 0.7, whose candidate is current_gesture
\* and whose current_time exceeds gesture_start_time by more than the
\* confirmation duration confirms and returns an event, and that event
\* carries the call's confidence.
C36_ConfirmIgnoresConfidence ==
    (/\ ncalls > 0
     /\ prev.state = GESTURE_STARTING
     /\ arg_gesture = PrevGesture
     /\ now - prev.gesture_start_time > confirmation_threshold
     /\ arg_confidence <= confidence_gate)
        => /\ state = GESTURE_CONFIRMED
           /\ Len(ret) = 1
           /\ ret[1].confidence = arg_confidence
           /\ ret[1].confidence <= confidence_gate

\* An event with confidence 0.0 has been returned.
C36_Witness ==
    /\ prev.state = GESTURE_STARTING
    /\ state = GESTURE_CONFIRMED
    /\ ret # <<>>
    /\ ret[1].confidence = 0

\* C37: on no frame do CrossedArmsDetector.detect and
\* HandsRaisedDetector.detect both return true: whenever one of them has
\* returned true for a frame, the other returns false for that frame.
C37_NeverBoth ==
    /\ (Called("crossed_arms") /\ obs.outcome = Return(TRUE))
          => ~hands_raised_detect(obs.frame)
    /\ (Called("hands_raised") /\ obs.outcome = Return(TRUE))
          => ~crossed_arms_detect(obs.frame)

\* Hands raised has fired on a frame whose wrists are crossed by more than
\* the offset.
C37_Witness ==
    /\ Called("hands_raised")
    /\ obs.outcome = Return(TRUE)
    /\ X(obs.frame.left_wrist) - X(obs.frame.right_wrist)
           > 2 * crossed_arms_offset

\* C38: whenever the capture thread has found the frame queue full, it has
\* dropped a queued frame and put the frame it had just captured in the
\* queue, whatever the main thread took from the queue meanwhile: the new
\* frame is never the one that is lost.
C38_LatestWins ==
    \A i \in DOMAIN capture.full :
        /\ capture.full[i].dropped # <<>>
        /\ capture.full[i].queued

\* The input thread is not in the middle of _send_input.
BetweenCommands == input_simulator.pc \in {"loop", "get", "done"}

\* The calls made on the keyboard for one key, in order
CallsFor(key) ==
    SelectSeq(keyboard, LAMBDA c : c.key = key)

\* C39: whenever _send_input has handled the commands given to it so far,
\* active_keys holds exactly the keys that were pressed on the keyboard and
\* not released since; and for each key the press and release calls made on
\* the keyboard alternate, the first being a press (a press of a key in
\* active_keys and a release of a key outside it send nothing).
C39_ActiveKeysArePressed ==
    /\ BetweenCommands =>
           {_get_key(k) : k \in input_simulator.active_keys}
               = keyboard_pressed(keyboard)
    /\ \A key \in {keyboard[i].key : i \in DOMAIN keyboard} :
           \A i \in DOMAIN CallsFor(key) :
               CallsFor(key)[i].call = IF i % 2 = 1 THEN "press" ELSE "release"

\* Four commands were handled, one of them sent nothing, and the Left key
\* was pressed, released and pressed again.
C39_Witness ==
    /\ BetweenCommands
    /\ app.processed = MaxCommands
    /\ shared_state.input_queue = <<>>
    /\ keyboard = <<[call |-> "press", key |-> "Key.left"],
                    [call |-> "release", key |-> "Key.left"],
                    [call |-> "press", key |-> "Key.left"]>>
    /\ input_simulator.active_keys = {"Left"}

\* C40: once cleanup has returned, no key is left pressed on the keyboard,
\* however the steps of the main thread and of the input thread interleaved.
C40_NoKeyLeftPressed ==
    app.pc = "returned" => keyboard_pressed(keyboard) = {}

====
